---- MODULE Spec2Model ----
(***************************************************************************)
(* nap_msg: relay between a Napcat (OneBot) websocket gateway and callers.  *)
(*                                                                         *)
(* The components of the package are modelled side by side:                *)
(*   - client.py  NapcatRelayClient.send_command / _wait_for_response:     *)
(*     one websocket connection per command, the reply is awaited with a   *)
(*     per-receive timeout;                                                *)
(*   - watch.py   _watch_loop / _resolve_text / _fetch_voice: the          *)
(*     reconnecting event loop that prints one JSON record per accepted    *)
(*     message event; cli.py and daemon.py have loops of the same shape;   *)
(*   - rpc.py     RpcServer: the line protocol, subscriptions and sends;   *)
(*   - cli.py     the segment options of `send`;                           *)
(*   - moltbot_client.py  MoltbotGatewayManager: the waiter table.         *)
(* The components share no state (every send_command and every            *)
(* _fetch_voice opens a connection of its own), so a behaviour exercises   *)
(* one of them, chosen by `entry`.                                         *)
(*                                                                         *)
(* Texts are sequences of tokens: a token is one character, except that a  *)
(* whole bracketed CQ code is one token ("[CQ:face]" is a code the regex   *)
(* of watch._strip_cq_and_whitespace removes, "[CQ:at]" one it keeps).     *)
(***************************************************************************)
EXTENDS Integers, Sequences, FiniteSets, TLC

VARIABLES
    entry,      \* which component this run exercises: "client", "watch", "cli",
                \* "daemon", "rpc", "send" or "agent"
    \* ---- client.py ----
    pc,         \* per call: "idle", "connecting", "waiting", "done"
    echo,       \* per call: Command.echo ("absent" before the Command is built)
    wait,       \* per waiting call: ticks since the current ws.recv() was started
    total,      \* per waiting call: ticks since the command was sent (saturates at MaxClock)
    heard,      \* the frame skipped last by a call that still waits, and that call
    result,     \* per call: outcome of send_command
    \* ---- watch.py ----
    cfg,        \* arguments and environment of _watch_loop
    wpc,        \* "connecting", "connected", "resolving", "backoff", "cancelled"
    link,       \* state of the loop's websocket: "none", "open", "closed_ok", "closed_err"
    inbox,      \* frames the gateway sent on the loop's websocket, not read yet
    nsent,      \* number of frames the gateway has sent to the loop so far
    received,   \* message_ids of the frames read from the socket, in order read
    cut,        \* frames read before the connection now held was made (0 with none held)
    event,      \* the loop's local `event`: the frame read last on this connection
    fate,       \* what became of it: "none", "skipped" (by a filter of the loop), "emitted",
                \* "resolving", "unresolved" (_resolve_text gave no text); in the daemon
                \* "forwarded" (given to moltbot, nothing sent back) and "answered"
                \* (given to moltbot and its reply sent on the gateway)
    emitted,    \* records written to stdout, in order
    slept,      \* ticks slept in the current asyncio.sleep(3)
    vpc,        \* _resolve_text: "idle", "connect", "poll", "download", "asr"
    vpolls,     \* _fetch_voice: iterations of the poll loop used
    vresp,      \* _fetch_voice: the frame accepted as response ("none" if none)
    spoken,     \* what sentence_recognize gave for `event`, once it has returned
    cancel_at,  \* where the loop was suspended when its task was cancelled (NotCancelled before)
    chat,       \* daemon: the send_chat made for `event`: its session key, how it ended
                \* and the reply text taken from its response (NoChat when none was made)
    replies,    \* daemon: the commands sent on the gateway, in order, each with the
                \* message_id of the event it answers
    (* rpc.py: RpcServer *)
    rpc,        \* where serve is: "reading" a line, "cancelling" (at `await task` of an
                \* unsubscribe), "sending" (at `await client.send_command`),
                \* "stopping" (in _stop_watch), or over: "stopped" (it
                \* returned), "crashed" (an exception left it), "interrupted"
    requests,   \* the lines read from stdin so far, in order (request objects and others)
    stdout,     \* the lines the server has written so far, in order
    watch_tasks,            \* the keys of self._watch_tasks
    tasks,                  \* the state of the task created for each subscription id
    next_subscription_id,    \* self._next_subscription_id
    watchers,   \* per subscription id the task made for it: its from_group filter, its
                \* connection ("none", "up", "backoff") and the events it has received
    params,     \* the params of the send or message.send request read last, NoParams else
    sent,       \* the commands handed to send_command: how many, and the last one
    (* cli.py: the options of `send` and `send-group` *)
    argv,       \* the segment options of the command line, in order
    counters,   \* the _counter of the action class of each segment type
    segments,   \* args.segments: the (order, type, value) tuples appended so far
    parts,      \* what _build_message_segments returned, NotBuilt before
    (* moltbot_client.py: MoltbotGatewayManager and its caller *)
    agent,      \* per call of _send_once where it is: "idle", "connecting" (in
                \* _ensure_client), "sending" (at client.send_chat), "waiting" (at
                \* wait_for), "waiting late" (at wait_for, reached more than 5 s
                \* after send_chat was called), or over: "returned" (a payload),
                \* "empty" ({} after the timeout), "raised"
    caller,     \* per call what send_chat gave its caller: "none" (not called),
                \* "blocked" (in cf.result), "payload", "empty", "raised", "gave up"
    waiters,    \* the keys of self._waiters
    futs,       \* per run id its future: "none", "pending", "done", "cancelled"
    gateway,    \* self._client: "none", "made" (connect not finished), "open"
    settled     \* per run id the states of the chat events that set its future's result

clientVars == <<pc, echo, wait, total, heard, result>>
watchVars == <<cfg, wpc, link, inbox, nsent, received, cut, event, fate, emitted, slept,
               vpc, vpolls, vresp, spoken, cancel_at, chat, replies>>
sendVars == <<params, sent>>
argVars == <<argv, counters, segments, parts>>
agentVars == <<agent, caller, waiters, futs, gateway, settled>>
rpcVars == <<rpc, requests, stdout, watch_tasks, tasks, next_subscription_id, watchers, params,
             sent>>
vars == <<entry, pc, echo, wait, total, heard, result, cfg, wpc, link, inbox, nsent, received, cut,
          event, fate, emitted, slept, vpc, vpolls, vresp, spoken, cancel_at, chat, replies, rpc,
          requests,
          stdout,
          watch_tasks, tasks, next_subscription_id, watchers, params, sent, argv, counters, segments,
          parts, agent, caller, waiters, futs, gateway, settled>>

----------------------------------------------------------------------------
(* Bounds of the model *)

\* number of send_command calls that may be in flight together
NCalls == 2
\* number of request lines the RPC server reads
MaxRequests == 3
\* number of subscriptions created
MaxSubs == 2
\* number of notifications written
MaxNotes == 2
\* number of segment options on a command line
MaxOptions == 3
\* number of send_chat calls made
NChats == 2
\* the caller-specified timeout of NapcatRelayClient, in ticks
TimeoutTicks == 2
\* `total` saturates at the first value past the timeout
MaxClock == TimeoutTicks + 1
\* frames the gateway sends to the watch loop in one behaviour
MaxFrames == 3
\* frames that may sit unread in the loop's socket
MaxInbox == 2

(* Program constants *)

\* asyncio.sleep(3) in the reconnect handler
BackoffSecs == 3
\* for _ in range(5) in _fetch_voice
VoicePolls == 5

Calls == 1 .. NCalls

----------------------------------------------------------------------------
(* Frames *)

\* the echoes uuid4 produces for the commands, and one that belongs to no command
Echoes == {ToString(c) : c \in Calls}
ForeignEcho == "e9"

\* A decoded frame. json = "bad": the payload is not JSON; json = "list": it is
\* JSON but not an object. A field a frame does not carry is "absent"
\* (dict.get gives None); the message of a frame is "absent", a string or a list
\* of segments.
NoMessage == [form |-> "absent", text |-> <<>>, segs |-> <<>>]

ObjFrame ==
    [json |-> "obj", post_type |-> "absent", echo |-> "absent", status |-> "absent",
     data |-> "absent", message_type |-> "absent", group_id |-> "absent",
     user_id |-> "absent", message_id |-> 0, message |-> NoMessage]

NoFrame == [ObjFrame EXCEPT !.json = "none"]
BadJson == [ObjFrame EXCEPT !.json = "bad"]
NonObject == [ObjFrame EXCEPT !.json = "list"]

\* Python truthiness of dict.get(key) for a string field
Truthy(v) == v \notin {"absent", ""}

\* Frames a gateway may deliver on a command's connection: undecodable
\* payloads, lifecycle frames (with and without an echo), replies to this and to
\* other commands, a reply with an empty echo, and a message event.
ClientFrames ==
    {BadJson, NonObject} \cup
    { [ObjFrame EXCEPT !.post_type = "meta_event", !.echo = e, !.status = "ok"] :
        e \in {"absent"} \cup Echoes } \cup
    { [ObjFrame EXCEPT !.echo = e, !.status = "ok"] :
        e \in {""} \cup Echoes \cup {ForeignEcho} } \cup
    { [ObjFrame EXCEPT !.post_type = "message", !.message_type = "group"] }

----------------------------------------------------------------------------
(* client.py *)

NoResult == [kind |-> "none", cause |-> "none", data |-> NoFrame]

\* {"status": "timeout", "echo": command.echo}
TimeoutValue(e) == [ObjFrame EXCEPT !.status = "timeout", !.echo = e]

\* _wait_for_response without its comparison of echoes
WaitDecisionAnyEcho(f, e) ==
    IF f.json = "bad" THEN "skip"
    ELSE IF f.json = "list" THEN "raise"
    ELSE IF f.post_type = "meta_event" THEN "skip"
    ELSE "return"

\* _wait_for_response without its test for lifecycle frames
WaitDecisionMetaKept(f, e) ==
    IF f.json = "bad" THEN "skip"
    ELSE IF f.json = "list" THEN "raise"
    ELSE IF Truthy(f.echo) /\ f.echo # e THEN "skip"
    ELSE "return"

\* One iteration of the loop of _wait_for_response on frame f, waiting for echo e:
\* "skip" (continue), "return" (return data) or "raise" (the exception escapes)
WaitDecision(f, e) ==
    IF f.json = "bad" THEN "skip"
    ELSE IF f.json = "list" THEN "raise"
    ELSE IF f.post_type = "meta_event" THEN "skip"
    ELSE IF Truthy(f.echo) /\ f.echo # e THEN "skip"
    ELSE "return"

\* the wait_for deadline of one ws.recv()
RecvDeadline(c) == wait[c] >= TimeoutTicks

\* an echo made once and given to every command, as a default argument
\* evaluated when the class is defined would be
DefaultEcho(c) == ToString(1)

\* Command(action, params): self.echo = str(uuid.uuid4()), a value no other
\* command has; the uuid4 of call c is written ToString(c)
NewEcho(c) == ToString(c)

\* a Command is built and send_command starts websockets.connect
SendCommand(c) ==
    /\ entry = "client"
    /\ pc[c] = "idle"
    /\ echo' = [echo EXCEPT ![c] = NewEcho(c)]
    /\ pc' = [pc EXCEPT ![c] = "connecting"]
    /\ UNCHANGED <<entry, wait, total, heard, result>>
    /\ UNCHANGED <<watchVars, rpcVars, argVars, agentVars>>

\* the connection is made and ws.send(payload) succeeds
ConnectOk(c) ==
    /\ entry = "client"
    /\ pc[c] = "connecting"
    /\ pc' = [pc EXCEPT ![c] = "waiting"]
    /\ wait' = [wait EXCEPT ![c] = 0]
    /\ total' = [total EXCEPT ![c] = 0]
    /\ UNCHANGED <<entry, echo, heard, result>>
    /\ UNCHANGED <<watchVars, rpcVars, argVars, agentVars>>

\* websockets.connect or ws.send raises: outside the try, the exception escapes
ConnectFail(c) ==
    /\ entry = "client"
    /\ pc[c] = "connecting"
    /\ pc' = [pc EXCEPT ![c] = "done"]
    /\ result' = [result EXCEPT ![c] = [kind |-> "raise", cause |-> "transport", data |-> NoFrame]]
    /\ UNCHANGED <<entry, echo, wait, total, heard>>
    /\ UNCHANGED <<watchVars, rpcVars, argVars, agentVars>>

\* send_command with `except Exception` placed before `except asyncio.TimeoutError`
OnWaitExceptionAllRaise(cause, e) ==
    [kind |-> "raise", cause |-> cause, data |-> NoFrame]

\* The try/except of send_command around _wait_for_response, for a command with
\* echo e: asyncio.TimeoutError ("timeout") gives the timeout dict as the return
\* value, every other exception (cause "transport" or "decode") is re-raised.
OnWaitException(cause, e) ==
    IF cause = "timeout"
    THEN [kind |-> "return", cause |-> cause, data |-> TimeoutValue(e)]
    ELSE [kind |-> "raise", cause |-> cause, data |-> NoFrame]

\* `heard` once call c is over: it tells of the calls that still wait only
Forget(c) == IF heard.call = c THEN [call |-> 0, frame |-> NoFrame] ELSE heard

\* ws.recv() yields frame f before the deadline
RecvFrame(c) ==
    /\ entry = "client"
    /\ pc[c] = "waiting"
    /\ ~RecvDeadline(c)
    /\ \E f \in ClientFrames :
          LET d == WaitDecision(f, echo[c]) IN
          /\ pc' = [pc EXCEPT ![c] = IF d = "skip" THEN "waiting" ELSE "done"]
          /\ wait' = [wait EXCEPT ![c] = 0]
          /\ total' = [total EXCEPT ![c] = IF d = "skip" THEN @ ELSE 0]
          /\ heard' = IF d = "skip" THEN [call |-> c, frame |-> f] ELSE Forget(c)
          /\ result' = [result EXCEPT ![c] =
                IF d = "return" THEN [kind |-> "return", cause |-> "reply", data |-> f]
                ELSE IF d = "raise" THEN OnWaitException("decode", echo[c])
                ELSE @]
    /\ UNCHANGED <<entry, echo>>
    /\ UNCHANGED <<watchVars, rpcVars, argVars, agentVars>>

\* asyncio.wait_for raises TimeoutError when the deadline of this recv passes
RecvTimeout(c) ==
    /\ entry = "client"
    /\ pc[c] = "waiting"
    /\ RecvDeadline(c)
    /\ pc' = [pc EXCEPT ![c] = "done"]
    /\ result' = [result EXCEPT ![c] = OnWaitException("timeout", echo[c])]
    /\ wait' = [wait EXCEPT ![c] = 0]
    /\ total' = [total EXCEPT ![c] = 0]
    /\ heard' = Forget(c)
    /\ UNCHANGED <<entry, echo>>
    /\ UNCHANGED <<watchVars, rpcVars, argVars, agentVars>>

\* ws.recv() raises ConnectionClosed
TransportFail(c) ==
    /\ entry = "client"
    /\ pc[c] = "waiting"
    /\ pc' = [pc EXCEPT ![c] = "done"]
    /\ result' = [result EXCEPT ![c] = OnWaitException("transport", echo[c])]
    /\ wait' = [wait EXCEPT ![c] = 0]
    /\ total' = [total EXCEPT ![c] = 0]
    /\ heard' = Forget(c)
    /\ UNCHANGED <<entry, echo>>
    /\ UNCHANGED <<watchVars, rpcVars, argVars, agentVars>>

\* one tick of time passes for every waiting call; a due timeout fires first
ClientTick ==
    /\ entry = "client"
    /\ \E c \in Calls : pc[c] = "waiting"
    /\ \A c \in Calls : pc[c] = "waiting" => ~RecvDeadline(c)
    /\ wait' = [c \in Calls |-> IF pc[c] = "waiting" THEN wait[c] + 1 ELSE wait[c]]
    /\ total' = [c \in Calls |->
          IF pc[c] = "waiting" /\ total[c] < MaxClock THEN total[c] + 1 ELSE total[c]]
    /\ UNCHANGED <<entry, pc, echo, heard, result>>
    /\ UNCHANGED <<watchVars, rpcVars, argVars, agentVars>>

ClientInit ==
    /\ pc = [c \in Calls |-> "idle"]
    /\ echo = [c \in Calls |-> "absent"]
    /\ wait = [c \in Calls |-> 0]
    /\ total = [c \in Calls |-> 0]
    /\ heard = [call |-> 0, frame |-> NoFrame]
    /\ result = [c \in Calls |-> NoResult]

----------------------------------------------------------------------------
(* Texts: str operations used by watch.py, on token sequences *)

IsSpace(tok) == tok \in {" ", "LF"}

RECURSIVE LStrip(_)
\* str.lstrip()
LStrip(t) == IF t # <<>> /\ IsSpace(Head(t)) THEN LStrip(Tail(t)) ELSE t

RECURSIVE RStrip(_)
\* str.rstrip()
RStrip(t) ==
    IF t # <<>> /\ IsSpace(t[Len(t)]) THEN RStrip(SubSeq(t, 1, Len(t) - 1)) ELSE t

\* str.strip()
Strip(t) == RStrip(LStrip(t))

\* position of the first line break of t, 0 if there is none
FirstBreak(t) ==
    IF \E i \in 1 .. Len(t) : t[i] = "LF"
    THEN CHOOSE i \in 1 .. Len(t) : t[i] = "LF" /\ \A j \in 1 .. (i - 1) : t[j] # "LF"
    ELSE 0

RECURSIVE SplitLines(_)
\* str.splitlines(): no line for the empty rest after a final line break
SplitLines(t) ==
    IF t = <<>> THEN <<>>
    ELSE LET i == FirstBreak(t) IN
         IF i = 0 THEN <<t>>
         ELSE <<SubSeq(t, 1, i - 1)>> \o SplitLines(SubSeq(t, i + 1, Len(t)))

RECURSIVE JoinLines(_)
\* "\n".join(lines)
JoinLines(lines) ==
    IF lines = <<>> THEN <<>>
    ELSE IF Len(lines) = 1 THEN lines[1]
    ELSE lines[1] \o <<"LF">> \o JoinLines(Tail(lines))

\* str.startswith(pfx)
StartsWith(t, pfx) == Len(pfx) <= Len(t) /\ SubSeq(t, 1, Len(pfx)) = pfx

\* the CQ codes re.sub(r"\[CQ:(face|image)[^\]]*\]", "", text) removes
StrippedCodes == {"[CQ:face]", "[CQ:image]"}

RECURSIVE StripLinesOf(_)
\* [line.strip() for line in lines if line.strip()]
StripLinesOf(lines) ==
    IF lines = <<>> THEN <<>>
    ELSE IF Strip(Head(lines)) = <<>> THEN StripLinesOf(Tail(lines))
    ELSE <<Strip(Head(lines))>> \o StripLinesOf(Tail(lines))

\* _strip_cq_and_whitespace
StripCqAndWhitespace(t) ==
    LET nocq == SelectSeq(t, LAMBDA tok : tok \notin StrippedCodes)
    IN  Strip(JoinLines(StripLinesOf(SplitLines(nocq))))

\* next((ln for ln in text.splitlines() if ln.strip()), text)
FirstLine(t) ==
    LET lines == SplitLines(t)
        nonblank == {i \in 1 .. Len(lines) : Strip(lines[i]) # <<>>}
    IN  IF nonblank = {} THEN t
        ELSE lines[CHOOSE i \in nonblank : \A j \in nonblank : i <= j]

\* a filter that drops a text when any of its lines starts with a prefix
IgnoredOnAnyLine(t, prefixes) ==
    \E i \in 1 .. Len(SplitLines(t)) :
        \E k \in 1 .. Len(prefixes) : StartsWith(LStrip(SplitLines(t)[i]), prefixes[k])

\* ignore_prefixes and any(check_text.startswith(pfx) for pfx in ignore_prefixes)
IgnoredByPrefix(t, prefixes) ==
    LET check_text == LStrip(FirstLine(t))
    IN  \E k \in 1 .. Len(prefixes) : StartsWith(check_text, prefixes[k])

----------------------------------------------------------------------------
(* watch.py: events *)

TextSeg(t) == [type |-> "text", val |-> t]
RecordSeg(path) == [type |-> "record", val |-> path]
ImageSeg == [type |-> "image", val |-> <<>>]
AtSeg == [type |-> "at", val |-> <<>>]

ListMessage(segs) == [form |-> "list", text |-> <<>>, segs |-> segs]
StrMessage(t) == [form |-> "str", text |-> t, segs |-> <<>>]

RECURSIVE TextParts(_)
\* the text_parts list built by the loop of _extract_text_and_record
TextParts(segs) ==
    IF segs = <<>> THEN <<>>
    ELSE IF Head(segs).type = "text" THEN <<Head(segs).val>> \o TextParts(Tail(segs))
    ELSE TextParts(Tail(segs))

\* the first record segment whose path is not blank, stripped (<<>>: None)
RecordFile(segs) ==
    LET recs == {i \in 1 .. Len(segs) : segs[i].type = "record" /\ Strip(segs[i].val) # <<>>}
    IN  IF recs = {} THEN <<>>
        ELSE Strip(segs[CHOOSE i \in recs : \A j \in recs : i <= j].val)

\* _extract_text_and_record. None is written <<>>: the loop only tests the
\* truth of text_content and record_file, and None and "" are both false.
ExtractTextAndRecord(f) ==
    IF f.message.form = "str" THEN [text |-> f.message.text, record |-> <<>>]
    ELSE IF f.message.form # "list" THEN [text |-> <<>>, record |-> <<>>]
    ELSE [text |-> JoinLines(TextParts(f.message.segs)),
          record |-> RecordFile(f.message.segs)]

GroupEvent(gid, msg) ==
    [ObjFrame EXCEPT !.post_type = "message", !.message_type = "group",
                     !.group_id = gid, !.user_id = "u1", !.message = msg]

\* the frames the gateway may send to the watch loop (message_id is set on sending)
WatchFrames ==
    { BadJson,
      NonObject,
      \* a lifecycle frame that carries everything a message event carries
      [GroupEvent("100", ListMessage(<<TextSeg(<<"h", "i">>)>>))
          EXCEPT !.post_type = "meta_event", !.echo = "e1", !.status = "ok"],
      \* a command reply
      [ObjFrame EXCEPT !.echo = "e1", !.status = "ok"],
      GroupEvent("100", ListMessage(<<TextSeg(<<"/", "n", "e", "w">>)>>)),
      GroupEvent("100", ListMessage(<<TextSeg(<<"/", "f", "o", "o">>)>>)),
      GroupEvent("100", ListMessage(<<AtSeg, TextSeg(<<"h", "i">>)>>)),
      GroupEvent("200", ListMessage(<<TextSeg(<<"h", "i">>)>>)),
      GroupEvent("100", ListMessage(<<TextSeg(<<"h", "i">>), TextSeg(<<"/", "x">>)>>)),
      GroupEvent("100", ListMessage(<<TextSeg(<<" ", "LF", " ", "/", "x">>)>>)),
      GroupEvent("100", ListMessage(<<RecordSeg(<<"f">>)>>)),
      GroupEvent("100", ListMessage(<<ImageSeg>>)),
      GroupEvent("100", ListMessage(<<TextSeg(<<"[CQ:face]">>), RecordSeg(<<"f">>)>>)),
      [GroupEvent("absent", StrMessage(<<"h", "i", " ", "[CQ:image]">>))
          EXCEPT !.message_type = "private", !.user_id = "u2"] }

\* from_group, from_user, ignore_prefixes of _watch_loop; creds: TENCENT_SECRET_ID
\* and TENCENT_SECRET_KEY are both set
Configs ==
    { [from_group |-> "absent", from_user |-> "absent", ignore_prefixes |-> <<<<"/">>>>,
       creds |-> TRUE],
      [from_group |-> "100", from_user |-> "u1", ignore_prefixes |-> <<<<"#">>>>,
       creds |-> FALSE] }

\* What one iteration of the `async for` of _watch_loop does with frame f up to
\* the call of _resolve_text: "skip" (continue), "emit" with the text to print,
\* or "voice" (the text must come from the voice record)
Classify(f, c) ==
    LET ex == ExtractTextAndRecord(f)
        cleaned == StripCqAndWhitespace(ex.text)
    IN  IF f.json # "obj" THEN [do |-> "skip", text |-> <<>>]
        ELSE IF f.post_type # "message" THEN [do |-> "skip", text |-> <<>>]
        ELSE IF Truthy(c.from_group) /\ f.group_id # c.from_group
            THEN [do |-> "skip", text |-> <<>>]
        ELSE IF Truthy(c.from_user) /\ f.user_id # c.from_user
            THEN [do |-> "skip", text |-> <<>>]
        ELSE IF ex.text # <<>>
            THEN IF cleaned = <<>> THEN [do |-> "skip", text |-> <<>>]
                 ELSE IF IgnoredByPrefix(cleaned, c.ignore_prefixes)
                     THEN [do |-> "skip", text |-> <<>>]
                 ELSE [do |-> "emit", text |-> cleaned]
        ELSE IF ex.record = <<>> THEN [do |-> "skip", text |-> <<>>]
        \* _resolve_text without credentials returns None at once
        ELSE IF ~c.creds THEN [do |-> "skip", text |-> <<>>]
        ELSE [do |-> "voice", text |-> <<>>]

\* Classify tabulated over the frames and configurations (the message_id of a
\* frame plays no part in it)
Handling == [w \in WatchFrames, c \in Configs |-> Classify(w, c)]

\* the line written to stdout for event f with resolved text t: the KEEP_FIELDS
\* of the event, raw_message replaced by t (`of` records the post_type of f)
OutRecord(f, t) ==
    [message_id |-> f.message_id, message_type |-> f.message_type,
     group_id |-> f.group_id, user_id |-> f.user_id, raw_message |-> t,
     of |-> f.post_type]

----------------------------------------------------------------------------
(* watch.py: _watch_loop *)

\* the entry points that run an event loop of this shape (connect, `async for`
\* over the frames, `except Exception` then sleep): watch.py's and cli.py's
\* _watch_loop and daemon.py's watch_napcat_events
Loops == {"watch", "cli", "daemon"}

\* sentence_recognize has not returned for the event at hand
NotSpoken == [said |-> FALSE, text |-> <<>>]

\* a loop that resolves the text in a task of its own and goes on reading
CanReadWhileResolving == wpc \in {"connected", "resolving"}

\* the loop is at `async for raw in ws`, ready to take the next frame
CanRead == wpc = "connected"

\* sys.stdout.write of one record
Emit(out, rec) == Append(out, rec)

\* websockets.connect(url) succeeds
WatchConnectOk ==
    /\ entry \in Loops
    /\ wpc = "connecting"
    /\ wpc' = "connected"
    /\ link' = "open"
    /\ inbox' = <<>>
    /\ cut' = Len(received)
    /\ UNCHANGED <<entry, cfg, spoken, nsent, received, event, fate, emitted, slept, vpc, vpolls, vresp>>
    /\ UNCHANGED <<clientVars, rpcVars, argVars, agentVars, cancel_at, chat, replies>>

\* a loop whose `except Exception` re-raises: the loop ends
OnLoopErrorRaise == "failed"

\* what the loop does when an exception other than CancelledError reaches it
OnLoopError == "backoff"

\* websockets.connect(url) raises: `except Exception`, then asyncio.sleep(3)
WatchConnectFail ==
    /\ entry \in Loops
    /\ wpc = "connecting"
    /\ wpc' = OnLoopError
    /\ slept' = 0
    /\ UNCHANGED <<entry, cfg, spoken, link, inbox, nsent, received, cut, event, fate, emitted, vpc, vpolls,
                   vresp>>
    /\ UNCHANGED <<clientVars, rpcVars, argVars, agentVars, cancel_at, chat, replies>>

\* the gateway sends one more frame on the open connection
GatewaySend ==
    /\ entry \in Loops
    /\ link = "open"
    /\ nsent < MaxFrames
    /\ Len(inbox) < MaxInbox
    /\ nsent' = nsent + 1
    /\ inbox' = Append(inbox, nsent + 1)
    /\ UNCHANGED <<entry, cfg, spoken, wpc, link, received, cut, event, fate, emitted, slept, vpc, vpolls,
                   vresp>>
    /\ UNCHANGED <<clientVars, rpcVars, argVars, agentVars, cancel_at, chat, replies>>

\* the connection ends: a close handshake with code 1000/1001 ("closed_ok") or
\* any other way ("closed_err")
GatewayClose ==
    /\ entry \in Loops
    /\ link = "open"
    /\ link' \in {"closed_ok", "closed_err"}
    /\ UNCHANGED <<entry, cfg, spoken, wpc, inbox, nsent, received, cut, event, fate, emitted, slept, vpc,
                   vpolls, vresp>>
    /\ UNCHANGED <<clientVars, rpcVars, argVars, agentVars, cancel_at, chat, replies>>

\* One iteration of `async for raw in ws`: the next frame is read and handled up
\* to the first await. The content of a frame is fixed when it is read: nothing
\* the loop does depends on a frame it has not read.
WatchRecv ==
    /\ entry = "watch"
    /\ CanRead
    /\ inbox # <<>>
    /\ \E w \in WatchFrames :
          LET f == IF w.json = "obj" THEN [w EXCEPT !.message_id = Head(inbox)] ELSE w
              d == Handling[w, cfg]
          IN  /\ event' = f
              /\ fate' = CASE d.do = "skip" -> "skipped"
                            [] d.do = "emit" -> "emitted"
                            [] OTHER -> "resolving"
              /\ emitted' = IF d.do = "emit" THEN Emit(emitted, OutRecord(f, d.text))
                            ELSE emitted
              /\ wpc' = IF d.do = "voice" THEN "resolving" ELSE wpc
              /\ vpc' = IF d.do = "voice" THEN "connect" ELSE vpc
              /\ vpolls' = IF d.do = "voice" THEN 0 ELSE vpolls
              /\ vresp' = IF d.do = "voice" THEN NoFrame ELSE vresp
    /\ received' = Append(received, Head(inbox))
    /\ inbox' = Tail(inbox)
    /\ spoken' = NotSpoken
    /\ UNCHANGED <<entry, cfg, link, nsent, cut, slept>>
    /\ UNCHANGED <<clientVars, rpcVars, argVars, agentVars, cancel_at, chat, replies>>

\* the iterator ends without an exception (the connection was closed normally):
\* `async with` exits and `while True` starts the next connection at once
WatchLoopEnd ==
    /\ entry \in Loops
    /\ wpc = "connected"
    /\ inbox = <<>>
    /\ link = "closed_ok"
    /\ wpc' = "connecting"
    /\ link' = "none"
    /\ event' = NoFrame
    /\ fate' = "none"
    /\ cut' = 0
    /\ spoken' = NotSpoken
    /\ UNCHANGED <<entry, cfg, inbox, nsent, received, emitted, slept, vpc, vpolls, vresp>>
    /\ UNCHANGED <<clientVars, rpcVars, argVars, agentVars, cancel_at, chat, replies>>

\* the iterator raises ConnectionClosedError: `except Exception`, then sleep(3)
WatchConnError ==
    /\ entry \in Loops
    /\ wpc = "connected"
    /\ inbox = <<>>
    /\ link = "closed_err"
    /\ wpc' = OnLoopError
    /\ link' = "none"
    /\ slept' = 0
    /\ event' = NoFrame
    /\ fate' = "none"
    /\ cut' = 0
    /\ spoken' = NotSpoken
    /\ UNCHANGED <<entry, cfg, inbox, nsent, received, emitted, vpc, vpolls, vresp>>
    /\ UNCHANGED <<clientVars, rpcVars, argVars, agentVars, cancel_at, chat, replies>>

\* one second of asyncio.sleep(3) passes
BackoffTick ==
    /\ entry \in Loops
    /\ wpc = "backoff"
    /\ slept < BackoffSecs
    /\ slept' = slept + 1
    /\ UNCHANGED <<entry, cfg, spoken, wpc, link, inbox, nsent, received, cut, event, fate, emitted, vpc,
                   vpolls, vresp>>
    /\ UNCHANGED <<clientVars, rpcVars, argVars, agentVars, cancel_at, chat, replies>>

\* asyncio.sleep(3) returns: `while True` connects again
BackoffDone ==
    /\ entry \in Loops
    /\ wpc = "backoff"
    /\ slept = BackoffSecs
    /\ wpc' = "connecting"
    /\ slept' = 0
    /\ UNCHANGED <<entry, cfg, spoken, link, inbox, nsent, received, cut, event, fate, emitted, vpc,
                   vpolls, vresp>>
    /\ UNCHANGED <<clientVars, rpcVars, argVars, agentVars, cancel_at, chat, replies>>

\* the task has not been cancelled
NotCancelled == [wpc |-> "none", vpc |-> "idle"]

\* a CancelledError caught by the reconnect handler like a connection error,
\* as it would be if that handler came first (its own sleep still ends the task)
OnCancelSwallowed(at) == IF at = "backoff" THEN "cancelled" ELSE "backoff"

\* task.cancel() raises CancelledError at the await the loop is suspended in.
\* It is not an Exception: the `except Exception` of _fetch_voice and
\* _resolve_text let it pass, `except asyncio.CancelledError: raise` of the
\* loop re-raises it, and raised in asyncio.sleep(3) it leaves the handler.
OnCancel(at) == "cancelled"

\* the task is cancelled at an await: CancelledError is re-raised and the loop
\* ends, closing the websocket it holds
WatchCancel ==
    /\ entry \in Loops
    /\ wpc \in {"connecting", "connected", "resolving", "backoff"}
    /\ wpc' = OnCancel(wpc)
    /\ cancel_at' = [wpc |-> wpc, vpc |-> vpc]
    /\ link' = "none"
    /\ inbox' = <<>>
    /\ event' = NoFrame
    /\ fate' = "none"
    /\ slept' = 0
    /\ vpc' = "idle"
    /\ vpolls' = 0
    /\ vresp' = NoFrame
    /\ cut' = 0
    /\ spoken' = NotSpoken
    /\ UNCHANGED <<entry, cfg, nsent, received, emitted, chat, replies>>
    /\ UNCHANGED <<clientVars, rpcVars, argVars, agentVars>>

----------------------------------------------------------------------------
(* watch.py: _resolve_text and _fetch_voice *)

\* echo = str(uuid.uuid4()) of the get_record request
VoiceEcho == "v1"

\* frames the gateway may deliver on the connection of _fetch_voice; data tells
\* what response["data"] holds: "base64", "badbase64" (not decodable), "url"
VoiceFrames ==
    { BadJson,
      NonObject,
      [ObjFrame EXCEPT !.post_type = "meta_event", !.echo = VoiceEcho, !.status = "ok",
                       !.data = "base64"],
      [ObjFrame EXCEPT !.echo = ForeignEcho, !.status = "ok", !.data = "base64"],
      [ObjFrame EXCEPT !.echo = VoiceEcho],
      [ObjFrame EXCEPT !.echo = VoiceEcho, !.data = "base64"],
      [ObjFrame EXCEPT !.post_type = "message", !.message_type = "group"],
      [ObjFrame EXCEPT !.status = "ok", !.data = "base64"],
      [ObjFrame EXCEPT !.echo = VoiceEcho, !.status = "failed"] } \cup
    { [ObjFrame EXCEPT !.echo = VoiceEcho, !.status = "ok", !.data = d] :
        d \in {"base64", "badbase64", "url", "absent"} }

\* what sentence_recognize may give for some audio: a text, or nothing (an empty
\* result or an exception, both of which _resolve_text turns into no text)
AsrOutcomes == { <<"o", "k">>, <<"/", "v">>, <<>> }

\* a poll loop that accepts a frame whether or not it has a status
VoiceDecisionNoStatus(f, e) ==
    IF f.json # "obj" THEN "skip"
    ELSE IF f.post_type = "meta_event" THEN "skip"
    ELSE IF Truthy(f.echo) /\ f.echo # e THEN "skip"
    ELSE "accept"

\* one iteration of the poll loop of _fetch_voice on frame f: "skip" (continue)
\* or "accept" (response = candidate; break)
VoiceDecision(f, e) ==
    IF f.json # "obj" THEN "skip"
    ELSE IF f.post_type = "meta_event" THEN "skip"
    ELSE IF Truthy(f.echo) /\ f.echo # e THEN "skip"
    ELSE IF ~Truthy(f.status) THEN "skip"
    ELSE "accept"

\* a _resolve_text whose failures reach the loop: `except Exception` of the loop
\* takes them, and the loop leaves its connection for the backoff
FinishResolveReconnect(text) ==
    /\ emitted' = IF text # <<>> THEN Emit(emitted, OutRecord(event, text)) ELSE emitted
    /\ fate' = IF text # <<>> THEN "emitted" ELSE "unresolved"
    /\ wpc' = IF text # <<>> THEN "connected" ELSE "backoff"
    /\ vpc' = "idle"
    /\ vpolls' = 0
    /\ vresp' = NoFrame

\* _resolve_text returns `text` for the event (<<>>: None or ""), and the loop
\* emits the event if the text is not empty
FinishResolve(text) ==
    /\ emitted' = IF text # <<>> THEN Emit(emitted, OutRecord(event, text)) ELSE emitted
    /\ fate' = IF text # <<>> THEN "emitted" ELSE "unresolved"
    /\ wpc' = "connected"
    /\ vpc' = "idle"
    /\ vpolls' = 0
    /\ vresp' = NoFrame

\* websockets.connect(napcat_ws) of _fetch_voice succeeds, the request is sent
VoiceConnectOk ==
    /\ entry = "watch"
    /\ wpc = "resolving"
    /\ vpc = "connect"
    /\ vpc' = "poll"
    /\ UNCHANGED <<entry, cfg, spoken, wpc, link, inbox, nsent, received, cut, event, fate, emitted, slept,
                   vpolls, vresp>>
    /\ UNCHANGED <<clientVars, rpcVars, argVars, agentVars, cancel_at, chat, replies>>

\* NAPCAT_URL is unusable, or connect or send raises: _fetch_voice returns b""
VoiceConnectFail ==
    /\ entry = "watch"
    /\ wpc = "resolving"
    /\ vpc = "connect"
    /\ FinishResolve(<<>>)
    /\ UNCHANGED <<entry, cfg, spoken, link, inbox, nsent, received, cut, event, slept>>
    /\ UNCHANGED <<clientVars, rpcVars, argVars, agentVars, cancel_at, chat, replies>>

\* ws.recv() of the poll loop yields a frame
VoicePoll ==
    /\ entry = "watch"
    /\ wpc = "resolving"
    /\ vpc = "poll"
    /\ vpolls < VoicePolls
    /\ \E f \in VoiceFrames :
          IF VoiceDecision(f, VoiceEcho) = "accept"
          THEN IF f.data \in {"base64", "url"}
               THEN /\ vresp' = f
                    /\ vpc' = IF f.data = "base64" THEN "asr" ELSE "download"
                    /\ vpolls' = 0    \* break: the poll loop is over
                    /\ UNCHANGED <<wpc, fate, emitted>>
               ELSE FinishResolve(<<>>)
          ELSE IF vpolls + 1 = VoicePolls
               THEN FinishResolve(<<>>)
               ELSE /\ vpolls' = vpolls + 1
                    /\ UNCHANGED <<wpc, vpc, vresp, fate, emitted>>
    /\ UNCHANGED <<entry, cfg, spoken, link, inbox, nsent, received, cut, event, slept>>
    /\ UNCHANGED <<clientVars, rpcVars, argVars, agentVars, cancel_at, chat, replies>>

\* ws.recv() of the poll loop raises (10 s without a frame, or closed): break
VoicePollFail ==
    /\ entry = "watch"
    /\ wpc = "resolving"
    /\ vpc = "poll"
    /\ vpolls < VoicePolls
    /\ FinishResolve(<<>>)
    /\ UNCHANGED <<entry, cfg, spoken, link, inbox, nsent, received, cut, event, slept>>
    /\ UNCHANGED <<clientVars, rpcVars, argVars, agentVars, cancel_at, chat, replies>>

\* the HTTP download of the record gives its bytes, or fails (b"")
VoiceDownload ==
    /\ entry = "watch"
    /\ wpc = "resolving"
    /\ vpc = "download"
    /\ \/ /\ vpc' = "asr"
          /\ UNCHANGED <<wpc, fate, emitted, vpolls, vresp>>
       \/ FinishResolve(<<>>)
    /\ UNCHANGED <<entry, cfg, spoken, link, inbox, nsent, received, cut, event, slept>>
    /\ UNCHANGED <<clientVars, rpcVars, argVars, agentVars, cancel_at, chat, replies>>

\* sentence_recognize returns or raises
VoiceAsr ==
    /\ entry = "watch"
    /\ wpc = "resolving"
    /\ vpc = "asr"
    /\ \E t \in AsrOutcomes :
          /\ spoken' = [said |-> TRUE, text |-> t]
          /\ FinishResolve(t)
    /\ UNCHANGED <<entry, cfg, link, inbox, nsent, received, cut, event, slept>>
    /\ UNCHANGED <<clientVars, rpcVars, argVars, agentVars, cancel_at, chat, replies>>

----------------------------------------------------------------------------
(* cli.py: _watch_loop of the `watch` command *)

\* the CQ codes that texts of the model may hold
CqCodes == StrippedCodes \cup {"[CQ:at]"}

\* cli.py's _strip_cq_and_whitespace: re.sub(r"\[CQ:[^\]]+\]", "", text) removes
\* every CQ code
CliStripCqAndWhitespace(t) ==
    LET nocq == SelectSeq(t, LAMBDA tok : tok \notin CqCodes)
    IN  Strip(JoinLines(StripLinesOf(SplitLines(nocq))))

\* record_file of cli.py's _extract_text_and_record: the `file` of the first
\* record segment that has one, as it is (not stripped)
CliRecordFile(segs) ==
    LET recs == {i \in 1 .. Len(segs) : segs[i].type = "record"}
    IN  IF recs = {} THEN <<>>
        ELSE segs[CHOOSE i \in recs : \A j \in recs : i <= j].val

\* cli.py's _extract_text_and_record
CliExtractTextAndRecord(f) ==
    IF f.message.form = "str" THEN [text |-> f.message.text, record |-> <<>>]
    ELSE IF f.message.form # "list" THEN [text |-> <<>>, record |-> <<>>]
    ELSE [text |-> JoinLines(TextParts(f.message.segs)),
          record |-> CliRecordFile(f.message.segs)]

\* DEFAULT_IGNORE_PREFIXES of cli.py; "[CQ:" is the start of a CQ code, and no
\* text holds it on its own
CliDefaultPrefixes == << <<"/">>, <<"[CQ:">> >>

\* the configurations of `nap-msg watch`
CliConfigs ==
    { [from_group |-> "absent", from_user |-> "absent",
       ignore_prefixes |-> CliDefaultPrefixes, creds |-> TRUE],
      [from_group |-> "100", from_user |-> "u1",
       ignore_prefixes |-> CliDefaultPrefixes, creds |-> FALSE] }

\* What one iteration of the `async for` of cli.py's _watch_loop does with frame
\* f: "skip" (continue), "emit" (the record is written with resolved_text =
\* text), "plain" (_resolve_text returns None at once and the record is written
\* without resolved_text) or "voice" (the record is fetched and transcribed)
CliClassify(f, c) ==
    LET ex == CliExtractTextAndRecord(f)
        cleaned == CliStripCqAndWhitespace(ex.text)
    IN  IF f.json # "obj" THEN [do |-> "skip", text |-> <<>>]
        ELSE IF f.post_type # "message" THEN [do |-> "skip", text |-> <<>>]
        ELSE IF Truthy(c.from_group) /\ f.group_id # c.from_group
            THEN [do |-> "skip", text |-> <<>>]
        ELSE IF Truthy(c.from_user) /\ f.user_id # c.from_user
            THEN [do |-> "skip", text |-> <<>>]
        ELSE IF ex.text # <<>> /\ cleaned = <<>> THEN [do |-> "skip", text |-> <<>>]
        ELSE IF /\ c.ignore_prefixes # <<>>
                /\ cleaned # <<>>
                /\ IgnoredByPrefix(cleaned, c.ignore_prefixes)
            THEN [do |-> "skip", text |-> <<>>]
        ELSE IF cleaned # <<>> THEN [do |-> "emit", text |-> cleaned]
        ELSE IF ex.record = <<>> THEN [do |-> "plain", text |-> <<>>]
        ELSE IF ~c.creds THEN [do |-> "plain", text |-> <<>>]
        ELSE [do |-> "voice", text |-> <<>>]

\* CliClassify tabulated over the frames and configurations
CliHandling == [w \in WatchFrames, c \in CliConfigs |-> CliClassify(w, c)]

\* the line cli.py writes for event f: its KEEP_FIELDS, with resolved_text = t
\* when _resolve_text gave a text (<<>>: the key is not set)
CliRecord(f, t) ==
    [message_id |-> f.message_id, message_type |-> f.message_type,
     group_id |-> f.group_id, user_id |-> f.user_id, message |-> f.message,
     resolved_text |-> t, of |-> f.post_type]

\* _resolve_text has returned `text` (<<>>: None or ""): the record of the event
\* is written whatever the text is
CliFinishResolve(text) ==
    /\ emitted' = Emit(emitted, CliRecord(event, text))
    /\ fate' = "emitted"
    /\ wpc' = "connected"
    /\ vpc' = "idle"

\* one iteration of `async for raw in ws` of cli.py
CliRecv ==
    /\ entry = "cli"
    /\ CanRead
    /\ inbox # <<>>
    /\ \E w \in WatchFrames :
          LET f == IF w.json = "obj" THEN [w EXCEPT !.message_id = Head(inbox)] ELSE w
              d == CliHandling[w, cfg]
          IN  /\ event' = f
              /\ fate' = CASE d.do = "skip" -> "skipped"
                            [] d.do = "voice" -> "resolving"
                            [] OTHER -> "emitted"
              /\ emitted' = IF d.do \in {"emit", "plain"}
                            THEN Emit(emitted, CliRecord(f, d.text))
                            ELSE emitted
              /\ wpc' = IF d.do = "voice" THEN "resolving" ELSE wpc
              /\ vpc' = IF d.do = "voice" THEN "download" ELSE vpc
    /\ received' = Append(received, Head(inbox))
    /\ inbox' = Tail(inbox)
    /\ spoken' = NotSpoken
    /\ UNCHANGED <<entry, cfg, link, nsent, cut, slept, vpolls, vresp>>
    /\ UNCHANGED <<clientVars, rpcVars, argVars, agentVars, cancel_at, chat, replies>>

\* cli.py's _fetch_voice (an HTTP GET or the read of a local file) gives the
\* bytes of the record, or raises: _resolve_text returns None
CliFetchVoice ==
    /\ entry = "cli"
    /\ wpc = "resolving"
    /\ vpc = "download"
    /\ \/ /\ vpc' = "asr"
          /\ UNCHANGED <<wpc, fate, emitted>>
       \/ CliFinishResolve(<<>>)
    /\ UNCHANGED <<entry, cfg, spoken, link, inbox, nsent, received, cut, event, slept, vpolls,
                   vresp>>
    /\ UNCHANGED <<clientVars, rpcVars, argVars, agentVars, cancel_at, chat, replies>>

\* sentence_recognize returns or raises
CliAsr ==
    /\ entry = "cli"
    /\ wpc = "resolving"
    /\ vpc = "asr"
    /\ \E t \in AsrOutcomes :
          /\ spoken' = [said |-> TRUE, text |-> t]
          /\ CliFinishResolve(t)
    /\ UNCHANGED <<entry, cfg, link, inbox, nsent, received, cut, event, slept, vpolls, vresp>>
    /\ UNCHANGED <<clientVars, rpcVars, argVars, agentVars, cancel_at, chat, replies>>

----------------------------------------------------------------------------
(* daemon.py: watch_napcat_events and the filters of handle_message_event *)

\* ALLOW_SENDERS, --ignore-startswith and --fire-and-forget of the daemon
DaemonConfigs ==
    { [from_group |-> "absent", from_user |-> "absent", ignore_prefixes |-> <<<<"/">>>>,
       creds |-> FALSE, allow_senders |-> {}, fire_and_forget |-> FALSE],
      [from_group |-> "absent", from_user |-> "absent", ignore_prefixes |-> <<>>,
       creds |-> FALSE, allow_senders |-> {"u1"}, fire_and_forget |-> FALSE],
      [from_group |-> "absent", from_user |-> "absent", ignore_prefixes |-> <<>>,
       creds |-> FALSE, allow_senders |-> {}, fire_and_forget |-> TRUE] }

\* _extract_text of daemon.py
DaemonExtractText(f) ==
    IF f.message.form = "str" THEN f.message.text
    ELSE IF f.message.form # "list" THEN <<>>
    ELSE JoinLines(TextParts(f.message.segs))

\* the prefix test of handle_message_event
DaemonIgnored(text, prefixes) ==
    LET first_line == FirstLine(text)
        check_text == LStrip(first_line)
    IN  \E k \in 1 .. Len(prefixes) : StartsWith(check_text, prefixes[k])

\* handle_message_event without the test of the sender
DaemonDecisionAnySender(f, c) ==
    LET text == DaemonExtractText(f)
    IN  IF f.json # "obj" THEN [do |-> "skip", text |-> <<>>]
        ELSE IF f.message_type \notin {"group", "private"} THEN [do |-> "skip", text |-> <<>>]
        ELSE IF text = <<>> THEN [do |-> "skip", text |-> <<>>]
        ELSE IF DaemonIgnored(text, c.ignore_prefixes) THEN [do |-> "skip", text |-> <<>>]
        ELSE [do |-> "forward", text |-> text]

\* what the daemon does with frame f up to the call of moltbot: "skip" or
\* "forward" with the text to send
DaemonDecision(f, c) ==
    LET text == DaemonExtractText(f)
    IN  IF f.json # "obj" THEN [do |-> "skip", text |-> <<>>]
        ELSE IF f.message_type \notin {"group", "private"} THEN [do |-> "skip", text |-> <<>>]
        ELSE IF c.allow_senders # {} /\ f.user_id \notin c.allow_senders
            THEN [do |-> "skip", text |-> <<>>]
        ELSE IF text = <<>> THEN [do |-> "skip", text |-> <<>>]
        ELSE IF DaemonIgnored(text, c.ignore_prefixes) THEN [do |-> "skip", text |-> <<>>]
        ELSE [do |-> "forward", text |-> text]

\* DaemonDecision tabulated over the frames and configurations
DaemonHandling == [w \in WatchFrames, c \in DaemonConfigs |-> DaemonDecision(w, c)]

\* str(event.get(key, "")) of an id
IdText(v) == IF v = "absent" THEN "" ELSE v

\* _build_session_key
SessionKey(f) ==
    IF f.message_type = "group" THEN <<"qq-group-", IdText(f.group_id)>>
    ELSE <<"qq-user-", IdText(f.user_id)>>

\* the texts a response of the agent may carry in final_text; "[[" is the
\* start of a tool-call marker
ReplyTexts == { <<>>, <<" ">>, <<"o", "k">>, <<"o", "k", " ", "[[">>, <<"[[">> }

\* what send_chat gives: an exception (of the gateway, or the timeout of
\* cf.result), or a response: {} after the timeout of wait_for, else a payload
SendChatResults ==
    {[how |-> "raised", text |-> <<>>], [how |-> "empty", text |-> <<>>]} \cup
    [how : {"payload"}, text : ReplyTexts]

\* _strip_tool_marker: what precedes the first "[[", right-stripped
StripToolMarker(t) ==
    IF \E i \in 1 .. Len(t) : t[i] = "[["
    THEN RStrip(SubSeq(t, 1, (CHOOSE i \in 1 .. Len(t) :
                                 t[i] = "[[" /\ \A j \in 1 .. (i - 1) : t[j] # "[[") - 1))
    ELSE t

\* _extract_reply_text of a response whose text is in final_text: <<>> for None
ExtractReplyText(r) ==
    IF r.how # "payload" THEN <<>>
    ELSE IF Strip(r.text) # <<>> THEN StripToolMarker(Strip(r.text))
    ELSE <<>>

NoChat == [session |-> <<>>, how |-> "none", text |-> <<>>]
NoReply == [action |-> "none", dest |-> ""]

\* a daemon that answers the sender in private whatever the event
DaemonReplyToSender(f, c, r) ==
    IF r.how = "raised" \/ c.fire_and_forget \/ ExtractReplyText(r) = <<>> THEN NoReply
    ELSE [action |-> "send_private_msg", dest |-> IdText(f.user_id)]

\* handle_message_event after the filters, r being what send_chat gave: the
\* command it sends on the gateway, NoReply when it returns without sending
DaemonReply(f, c, r) ==
    IF r.how = "raised" THEN NoReply
    ELSE IF c.fire_and_forget THEN NoReply
    ELSE IF ExtractReplyText(r) = <<>> THEN NoReply
    ELSE IF f.message_type = "group"
    THEN [action |-> "send_group_msg", dest |-> IdText(f.group_id)]
    ELSE [action |-> "send_private_msg", dest |-> IdText(f.user_id)]

\* one iteration of `async for raw in ws` of watch_napcat_events: the filters of
\* handle_message_event, then send_chat; the reply goes out on the gateway
\* unless send_chat raised, gave no text, or the daemon runs fire-and-forget
DaemonRecv ==
    /\ entry = "daemon"
    /\ CanRead
    /\ inbox # <<>>
    /\ \E w \in WatchFrames, r \in SendChatResults :
          LET f == IF w.json = "obj" THEN [w EXCEPT !.message_id = Head(inbox)] ELSE w
              d == DaemonHandling[w, cfg]
              reply == DaemonReply(f, cfg, r)
          IN  /\ event' = f
              /\ IF d.do = "skip"
                 THEN /\ r.how = "raised"
                      /\ fate' = "skipped"
                      /\ chat' = NoChat
                      /\ replies' = replies
                 ELSE /\ chat' = [session |-> SessionKey(f), how |-> r.how,
                                  text |-> ExtractReplyText(r)]
                      /\ fate' = IF reply = NoReply THEN "forwarded" ELSE "answered"
                      /\ replies' = IF reply = NoReply THEN replies
                                    ELSE Append(replies, [action |-> reply.action,
                                                          dest |-> reply.dest,
                                                          of |-> Head(inbox)])
    /\ received' = Append(received, Head(inbox))
    /\ inbox' = Tail(inbox)
    /\ UNCHANGED <<entry, cfg, spoken, wpc, link, nsent, cut, emitted, slept, vpc, vpolls, vresp>>
    /\ UNCHANGED <<clientVars, rpcVars, argVars, agentVars, cancel_at>>

WatchInit ==
    /\ wpc = "connecting"
    /\ link = "none"
    /\ inbox = <<>>
    /\ nsent = 0
    /\ received = <<>>
    /\ cut = 0
    /\ event = NoFrame
    /\ fate = "none"
    /\ emitted = <<>>
    /\ slept = 0
    /\ vpc = "idle"
    /\ vpolls = 0
    /\ vresp = NoFrame
    /\ spoken = NotSpoken
    /\ cancel_at = NotCancelled
    /\ chat = NoChat
    /\ replies = <<>>

----------------------------------------------------------------------------
(* rpc.py: RpcServer, the subscription requests *)

\* request.get("id") of a request that has no id
NoId == 0

\* params.get("subscription") that is missing or that int() does not take
NoParam == 0 - 1

\* the subscription ids
SubIds == 1 .. MaxSubs

\* what params.get("subscription") may be, int() applied
SubParams == {NoParam} \cup SubIds

\* the lines written: responses {"id", "result"}, {"id", "error": {"code"}} and
\* notifications {"method": "message", "params": {"subscription"}}
ResultLine(id, sub, ok) == [kind |-> "result", id |-> id, sub |-> sub, ok |-> ok, code |-> 0]
ErrorLine(id, code) == [kind |-> "error", id |-> id, sub |-> 0, ok |-> FALSE, code |-> code]
MessageLine(sub) == [kind |-> "message", id |-> NoId, sub |-> sub, ok |-> FALSE, code |-> 0]

\* a notification as it is kept here: the line, and with it what is not
\* written: the task whose connection received the event (via), the group of
\* the event, where serve was (at) and the tasks that had no connection (down)
Note(sub, via, group) ==
    [kind |-> "message", id |-> NoId, sub |-> sub, ok |-> FALSE, code |-> 0,
     via |-> via, group |-> group, at |-> rpc,
     down |-> {t \in SubIds : watchers[t].link = "backoff"}]

\* the written part of a line
Written(line) ==
    [kind |-> line.kind, id |-> line.id, sub |-> line.sub, ok |-> line.ok, code |-> line.code]

\* a serve that reads the next line while a send is still awaited
ServeReadyWhileSending == rpc \in {"reading", "sending"}

\* serve is at readline: `await self._handle_request(request)` of the line
\* before has returned
ServeReady == rpc = "reading"

\* a writer that writes for a request without id too
WriteAlways(o, line) == Append(o, line)

\* _write_result and _write_error: nothing is written for a request without id
WriteLine(o, line) == IF line.id = NoId THEN o ELSE Append(o, line)

\* the request serve is handling (the last one read)
Current == requests[Len(requests)]

\* the request objects a client may send for `method`
Requests(method) ==
    [method : {method}, id : {NoId, Len(requests) + 1}, sub : SubParams, url : BOOLEAN,
     params : {"object"}]

\* a _cancel_subscription that does not wait for the task
TerminatedOrNot(s) == tasks[s] \in {"cancelling", "done"}

\* `await task` of _cancel_subscription returns once the task has ended
Terminated(s) == tasks[s] = "done"

\* a table lookup that raises KeyError when there is no task under the id
PopTaskStrict(s) == IF s \in watch_tasks THEN "task" ELSE "KeyError"

\* self._watch_tasks.pop(sub_id, None): the task registered under the id, "none"
\* if there is none
PopTask(s) == IF s \in watch_tasks THEN "task" ELSE "none"

\* no params of a send at hand; no command handed to send_command yet
NoParams == [method |-> "none"]
NoCommand == [action |-> "none", dest |-> <<>>]

\* the code of a request that is not valid, which the server never uses
InvalidRequest == 0 - 32600

\* JSON-RPC error codes the server answers with
InvalidParams == 0 - 32602
ServerError == 0 - 32000
MethodNotFound == 0 - 32601

\* ids of the gateway, as texts; an absent one (None) is <<>>
Group42 == <<"4", "2">>
User77 == <<"7", "7">>

\* str() of an id: "None" for an absent one
Str(id) == IF id = <<>> THEN <<"N", "o", "n", "e">> ELSE id

\* the params of `send` a client may write: a channel or none, the ids, and
\* whether `message` and `messages` hold something
SendParams ==
    {p \in [method : {"send"},
            channel : {"none", "group", "private", "group_forward", "fax"},
            group_id : {<<>>, Group42}, user_id : {<<>>, User77},
            message : BOOLEAN, messages : BOOLEAN] :
        /\ ~(p.group_id # <<>> /\ p.user_id # <<>>)
        /\ p.messages => p.channel = "group_forward"
        /\ p.channel = "group_forward" => (~p.message /\ p.group_id # <<>>)
        /\ p.channel = "group" => p.user_id = <<>>
        /\ p.channel = "private" => p.user_id # <<>>
        /\ p.channel = "fax" => (p.message /\ p.group_id # <<>>)}

\* the channel _handle_send settles on: the one given, or the one the ids tell
ChannelOf(p) ==
    IF p.channel # "none" THEN p.channel
    ELSE IF p.group_id # <<>> THEN "group"
    ELSE IF p.user_id # <<>> THEN "private"
    ELSE "none"

\* the try block of _handle_send up to the call of send_command: the command
\* built, or the ValueError raised
SendDecision(p) ==
    LET channel == ChannelOf(p) IN
    IF channel = "group_forward" /\ p.messages
    THEN [do |-> "send", action |-> "send_group_forward_msg", dest |-> Str(p.group_id)]
    ELSE IF channel = "group" /\ p.message
    THEN [do |-> "send", action |-> "send_group_msg", dest |-> Str(p.group_id)]
    ELSE IF channel = "private" /\ p.message
    THEN [do |-> "send", action |-> "send_private_msg", dest |-> Str(p.user_id)]
    ELSE [do |-> "raise", action |-> "none", dest |-> <<>>]

\* str.lower() on the letters the targets are written with
Lower(ch) == IF ch = "G" THEN "g" ELSE IF ch = "U" THEN "u" ELSE ch
LowerAll(t) == [i \in 1 .. Len(t) |-> Lower(t[i])]

\* text.split(":", 1)[1]: what follows the first colon
AfterColon(t) ==
    LET i == CHOOSE k \in 1 .. Len(t) : t[k] = ":" /\ \A j \in 1 .. (k - 1) : t[j] # ":"
    IN SubSeq(t, i + 1, Len(t))

\* text[len(prefix):]
From(t, n) == SubSeq(t, n + 1, Len(t))

\* the targets a client may write in `to`: "group-42", "group:42", "user-77",
\* "user:77", "77", "Group-42", " 77", "group-", and none
Targets ==
    { <<"g", "r", "o", "u", "p", "-", "4", "2">>, <<"g", "r", "o", "u", "p", ":", "4", "2">>,
      <<"u", "s", "e", "r", "-", "7", "7">>, <<"u", "s", "e", "r", ":", "7", "7">>,
      <<"7", "7">>, <<"G", "r", "o", "u", "p", "-", "4", "2">>, <<" ", "7", "7">>,
      <<"g", "r", "o", "u", "p", "-">>, <<>> }

\* the params of `message.send` a client may write: the target, the isGroup flag
\* (absent, or true) and whether there is a text
MessageSendParams ==
    {p \in [method : {"message.send"}, to : Targets, isGroup : {"absent", "true"},
            text : BOOLEAN] :
        p.text \/ p.isGroup = "absent"}

\* a target read as a private one whatever its prefix
ParseTargetPrivate(p) == [chat_id |-> Strip(p.to), is_group |-> "none"]

\* _parse_target_from_params: the chat id and whether it is a group ("none" when
\* neither the prefix nor the flag tells)
ParseTarget(p) ==
    LET text == Strip(p.to)
        low == LowerAll(text)
    IN  IF p.to = <<>> THEN [chat_id |-> <<>>, is_group |-> IF p.isGroup = "true" THEN "true" ELSE "none"]
        ELSE IF StartsWith(low, <<"g", "r", "o", "u", "p", "-">>)
        THEN [chat_id |-> Strip(From(text, 6)), is_group |-> "true"]
        ELSE IF StartsWith(low, <<"g", "r", "o", "u", "p", ":">>)
        THEN [chat_id |-> Strip(AfterColon(text)), is_group |-> "true"]
        ELSE IF StartsWith(low, <<"u", "s", "e", "r", "-">>)
        THEN [chat_id |-> Strip(From(text, 5)), is_group |-> "false"]
        ELSE IF StartsWith(low, <<"u", "s", "e", "r", ":">>)
        THEN [chat_id |-> Strip(AfterColon(text)), is_group |-> "false"]
        ELSE [chat_id |-> text, is_group |-> IF p.isGroup = "true" THEN "true" ELSE "none"]

\* _handle_message_send: the params it hands to _handle_send, or "invalid"
MessageSendDecision(p) ==
    LET t == ParseTarget(p) IN
    IF t.chat_id = <<>> \/ ~p.text THEN [method |-> "invalid"]
    ELSE [method |-> "send",
          channel |-> IF t.is_group = "true" THEN "group" ELSE "private",
          group_id |-> IF t.is_group = "true" THEN t.chat_id ELSE <<>>,
          user_id |-> IF t.is_group = "true" THEN <<>> ELSE t.chat_id,
          message |-> TRUE, messages |-> FALSE]

\* an id taken from the size of the table
CountedSubscriptionId == Cardinality(watch_tasks) + 1

\* the id _handle_subscribe gives to a new subscription: the counter, which it
\* then increments
NewSubscriptionId == next_subscription_id

\* watch.subscribe: _handle_subscribe
RpcSubscribe ==
    /\ entry = "rpc"
    /\ ServeReady
    /\ Len(requests) < MaxRequests
    /\ "watch.subscribe" \in cfg.lines
    /\ params' = NoParams
    /\ sent' = sent
    /\ \E r \in Requests("watch.subscribe") :
          /\ r.sub = NoParam
          /\ requests' = Append(requests, r)
          /\ IF ~r.url
             THEN /\ stdout' = WriteLine(stdout, ErrorLine(r.id, ServerError))
                  /\ UNCHANGED <<watch_tasks, tasks, next_subscription_id, watchers>>
             ELSE /\ next_subscription_id <= MaxSubs
                  /\ next_subscription_id' = next_subscription_id + 1
                  /\ tasks' = [tasks EXCEPT ![NewSubscriptionId] = "running"]
                  /\ watchers' = [watchers EXCEPT ![NewSubscriptionId] =
                                     [from_group |-> cfg.filters[NewSubscriptionId],
                                      link |-> "up", seen |-> 0]]
                  /\ watch_tasks' = watch_tasks \cup {NewSubscriptionId}
                  /\ stdout' = WriteLine(stdout, ResultLine(r.id, NewSubscriptionId, FALSE))
    /\ UNCHANGED <<entry, rpc, clientVars, watchVars, argVars, agentVars>>

\* watch.unsubscribe: _handle_unsubscribe up to the `await task` of
\* _cancel_subscription, or to its response when there is no task to wait for
RpcUnsubscribe ==
    /\ entry = "rpc"
    /\ UNCHANGED watchers
    /\ ServeReady
    /\ Len(requests) < MaxRequests
    /\ "watch.unsubscribe" \in cfg.lines
    /\ params' = NoParams
    /\ sent' = sent
    /\ \E r \in Requests("watch.unsubscribe") :
          /\ r.url
          /\ requests' = Append(requests, r)
          /\ IF r.sub = NoParam
             THEN /\ stdout' = WriteLine(stdout, ErrorLine(r.id, InvalidParams))
                  /\ UNCHANGED <<rpc, watch_tasks, tasks>>
             ELSE IF PopTask(r.sub) = "none"
             THEN /\ stdout' = WriteLine(stdout, ResultLine(r.id, 0, TRUE))
                  /\ UNCHANGED <<rpc, watch_tasks, tasks>>
             ELSE IF PopTask(r.sub) # "task"
             \* an exception out of _handle_request: `except Exception` of serve
             THEN /\ stdout' = WriteLine(stdout, ErrorLine(r.id, ServerError))
                  /\ UNCHANGED <<rpc, watch_tasks, tasks>>
             ELSE /\ watch_tasks' = watch_tasks \ {r.sub}
                  /\ tasks' = [tasks EXCEPT ![r.sub] =
                                  IF @ = "running" THEN "cancelling" ELSE @]
                  /\ rpc' = "cancelling"
                  /\ UNCHANGED stdout
    /\ UNCHANGED <<entry, next_subscription_id, clientVars, watchVars, argVars, agentVars>>

\* `await task` returns (CancelledError is passed over) and _handle_unsubscribe
\* writes its result
RpcUnsubscribed ==
    /\ entry = "rpc"
    /\ UNCHANGED watchers
    /\ UNCHANGED sendVars
    /\ rpc = "cancelling"
    /\ Terminated(Current.sub)
    /\ rpc' = "reading"
    /\ stdout' = WriteLine(stdout, ResultLine(Current.id, 0, TRUE))
    /\ UNCHANGED <<entry, requests, watch_tasks, tasks, next_subscription_id, clientVars,
                   watchVars, argVars, agentVars>>

\* a line that is not a request object: `what` tells what it is
OtherLine(what) ==
    [method |-> what, id |-> NoId, sub |-> NoParam, url |-> TRUE, params |-> "none"]

\* a request object for `method` whose outcome does not depend on what its params
\* hold: `p` tells whether they are an object or a non-empty list
Request(method, id, p) ==
    [method |-> method, id |-> id, sub |-> NoParam, url |-> FALSE, params |-> p]

\* the methods _handle_request answers itself, and those whose handler reads params
PlainMethods == {"initialize", "messages.history", "chats.list"}
ParamMethods == {"watch.subscribe", "watch.unsubscribe", "message.send", "send"}

\* a method _handle_request does not know
UnknownMethods == {"ping"}

\* initialize, messages.history, chats.list: a fixed result, whatever the params
RpcPlain ==
    /\ entry = "rpc"
    /\ UNCHANGED watchers
    /\ ServeReady
    /\ Len(requests) < MaxRequests
    /\ "plain" \in cfg.lines
    /\ params' = NoParams
    /\ sent' = sent
    /\ \E m \in PlainMethods, id \in {Len(requests) + 1} :
          /\ requests' = Append(requests, Request(m, id, "object"))
          /\ stdout' = WriteLine(stdout, ResultLine(id, 0, FALSE))
    /\ UNCHANGED <<entry, rpc, watch_tasks, tasks, next_subscription_id, clientVars,
                   watchVars, argVars, agentVars>>

\* any other method falls through to the last line of _handle_request, which
\* does not look at the params
RpcUnknownMethod ==
    /\ entry = "rpc"
    /\ UNCHANGED watchers
    /\ ServeReady
    /\ Len(requests) < MaxRequests
    /\ "unknown" \in cfg.lines
    /\ params' = NoParams
    /\ sent' = sent
    /\ \E m \in UnknownMethods, id \in {NoId, Len(requests) + 1} :
          /\ requests' = Append(requests, Request(m, id, "object"))
          /\ stdout' = WriteLine(stdout, ErrorLine(id, MethodNotFound))
    /\ UNCHANGED <<entry, rpc, watch_tasks, tasks, next_subscription_id, clientVars,
                   watchVars, argVars, agentVars>>

\* params that are a non-empty list (or a string, a number): the handler's first
\* params.get raises AttributeError, which serve answers with -32000
RpcBadParams ==
    /\ entry = "rpc"
    /\ UNCHANGED watchers
    /\ ServeReady
    /\ Len(requests) < MaxRequests
    /\ "bad params" \in cfg.lines
    /\ params' = NoParams
    /\ sent' = sent
    /\ \E m \in ParamMethods, id \in {Len(requests) + 1} :
          /\ requests' = Append(requests, Request(m, id, "list"))
          /\ stdout' = WriteLine(stdout, ErrorLine(id, ServerError))
    /\ UNCHANGED <<entry, rpc, watch_tasks, tasks, next_subscription_id, clientVars,
                   watchVars, argVars, agentVars>>

\* a line that json.loads does not take: it is logged and passed over
RpcInvalidJson ==
    /\ entry = "rpc"
    /\ UNCHANGED watchers
    /\ ServeReady
    /\ Len(requests) < MaxRequests
    /\ "invalid json" \in cfg.lines
    /\ params' = NoParams
    /\ sent' = sent
    /\ requests' = Append(requests, OtherLine("(invalid json)"))
    /\ UNCHANGED <<entry, rpc, stdout, watch_tasks, tasks, next_subscription_id, clientVars,
                   watchVars, argVars, agentVars>>

\* asyncio.run, once its main coroutine is over, cancels the tasks that are left
CancelAll(ts) == [s \in SubIds |-> IF ts[s] = "running" THEN "cancelling" ELSE ts[s]]

\* a line of JSON that is not an object (a list, a number, null): request.get
\* raises AttributeError in _handle_request, and again in the `except Exception`
\* of serve, at request.get("id"); the exception leaves serve
RpcNonObjectLine ==
    /\ entry = "rpc"
    /\ UNCHANGED watchers
    /\ ServeReady
    /\ Len(requests) < MaxRequests
    /\ "not an object" \in cfg.lines
    /\ params' = NoParams
    /\ sent' = sent
    /\ requests' = Append(requests, OtherLine("(not an object)"))
    /\ rpc' = "crashed"
    /\ tasks' = CancelAll(tasks)
    /\ UNCHANGED <<entry, stdout, watch_tasks, next_subscription_id, clientVars, watchVars, argVars, agentVars>>

\* KeyboardInterrupt while serve waits for a line: run_rpc_server returns 0
RpcInterrupt ==
    /\ entry = "rpc"
    /\ UNCHANGED watchers
    /\ UNCHANGED sendVars
    /\ rpc = "reading"
    /\ rpc' = "interrupted"
    /\ tasks' = CancelAll(tasks)
    /\ UNCHANGED <<entry, requests, stdout, watch_tasks, next_subscription_id, clientVars,
                   watchVars, argVars, agentVars>>

\* end of input: serve leaves its loop and calls _stop_watch, which empties the
\* table, cancels every task that was in it and awaits them one by one
RpcEof ==
    /\ entry = "rpc"
    /\ UNCHANGED watchers
    /\ UNCHANGED sendVars
    /\ rpc = "reading"
    /\ rpc' = IF watch_tasks = {} THEN "stopped" ELSE "stopping"
    /\ watch_tasks' = {}
    /\ tasks' = [s \in SubIds |->
                    IF s \in watch_tasks /\ tasks[s] = "running" THEN "cancelling"
                    ELSE tasks[s]]
    /\ UNCHANGED <<entry, requests, stdout, next_subscription_id, clientVars, watchVars, argVars, agentVars>>

\* the last `await task` of _stop_watch returns, and serve with it
RpcStopped ==
    /\ entry = "rpc"
    /\ UNCHANGED watchers
    /\ UNCHANGED sendVars
    /\ rpc = "stopping"
    /\ \A s \in SubIds : tasks[s] # "none" => Terminated(s)
    /\ rpc' = "stopped"
    /\ UNCHANGED <<entry, requests, stdout, watch_tasks, tasks, next_subscription_id,
                   clientVars, watchVars, argVars, agentVars>>

\* _handle_send with params p for the request with id `id`: an error for a
\* ValueError, else the command goes to send_command and serve waits there
HandleSend(id, p) ==
    LET d == SendDecision(p) IN
    IF d.do = "raise"
    THEN /\ stdout' = WriteLine(stdout, ErrorLine(id, ServerError))
         /\ UNCHANGED <<rpc, sent>>
    ELSE /\ rpc' = "sending"
         /\ sent' = [n |-> sent.n + 1, last |-> [action |-> d.action, dest |-> d.dest]]
         /\ UNCHANGED stdout

\* send
RpcSend ==
    /\ entry = "rpc"
    /\ UNCHANGED watchers
    /\ ServeReady
    /\ Len(requests) < MaxRequests
    /\ "send" \in cfg.lines
    /\ \E p \in cfg.sends, id \in {NoId, Len(requests) + 1} :
          /\ requests' = Append(requests, Request("send", id, "object"))
          /\ params' = p
          /\ HandleSend(id, p)
    /\ UNCHANGED <<entry, watch_tasks, tasks, next_subscription_id, clientVars, watchVars, argVars, agentVars>>

\* message.send
RpcMessageSend ==
    /\ entry = "rpc"
    /\ UNCHANGED watchers
    /\ ServeReady
    /\ Len(requests) < MaxRequests
    /\ "message.send" \in cfg.lines
    /\ \E p \in MessageSendParams, id \in {NoId, Len(requests) + 1} :
          /\ requests' = Append(requests, Request("message.send", id, "object"))
          /\ params' = p
          /\ IF MessageSendDecision(p).method = "invalid"
             THEN /\ stdout' = WriteLine(stdout, ErrorLine(id, InvalidParams))
                  /\ UNCHANGED <<rpc, sent>>
             ELSE HandleSend(id, MessageSendDecision(p))
    /\ UNCHANGED <<entry, watch_tasks, tasks, next_subscription_id, clientVars, watchVars, argVars, agentVars>>

\* send_command returns a value (the reply, or the timeout value), which is the
\* result, or it raises (no connection, a transport error), which is an error
RpcSendDone ==
    /\ entry = "rpc"
    /\ UNCHANGED watchers
    /\ rpc = "sending"
    /\ \E returned \in BOOLEAN :
          stdout' = WriteLine(stdout, IF returned THEN ResultLine(Current.id, 0, FALSE)
                                      ELSE ErrorLine(Current.id, ServerError))
    /\ rpc' = "reading"
    /\ UNCHANGED <<entry, requests, watch_tasks, tasks, next_subscription_id, sendVars,
                   clientVars, watchVars, argVars, agentVars>>

\* the notifications written so far
Notes == {i \in 1 .. Len(stdout) : stdout[i].kind = "message"}

\* the events the tasks have received so far
Seen == {p \in SubIds \X (1 .. MaxNotes) : p[2] <= watchers[p[1]].seen}

\* a tag read from the counter when the notification is written
EmitTagLatest(s) == next_subscription_id - 1

\* the `subscription` of the notifications of task s: _emit is a closure of
\* the call of _handle_subscribe that made the task, and holds its sub_id
EmitTag(s) == s

\* the from_group filter of a task: a task without one takes every group
Accepts(s, group) == watchers[s].from_group \in {"absent", group}

\* the connection of the task of subscription s receives an event of a group:
\* if the task's filter takes it, the task calls emit, which writes the
\* notification; else the event is dropped
WatchForeverEvent(s) ==
    /\ entry = "rpc"
    /\ UNCHANGED sendVars
    /\ tasks[s] = "running"
    /\ watchers[s].link = "up"
    /\ Cardinality(Seen) < MaxNotes
    /\ \E group \in cfg.groups :
          stdout' = IF Accepts(s, group) THEN Append(stdout, Note(EmitTag(s), s, group))
                    ELSE stdout
    /\ watchers' = [watchers EXCEPT ![s].seen = @ + 1]
    /\ UNCHANGED <<entry, rpc, requests, watch_tasks, tasks, next_subscription_id, clientVars,
                   watchVars, argVars, agentVars>>

\* the connection of the task of subscription s fails: the task sleeps before
\* it connects again
WatchForeverFail(s) ==
    /\ entry = "rpc"
    /\ UNCHANGED sendVars
    /\ s \in cfg.flaky
    /\ tasks[s] = "running"
    /\ watchers[s].link = "up"
    /\ watchers' = [watchers EXCEPT ![s].link = "backoff"]
    /\ UNCHANGED <<entry, rpc, requests, stdout, watch_tasks, tasks, next_subscription_id,
                   clientVars, watchVars, argVars, agentVars>>

\* the task of subscription s has slept and connected again
WatchForeverReconnect(s) ==
    /\ entry = "rpc"
    /\ UNCHANGED sendVars
    /\ tasks[s] = "running"
    /\ watchers[s].link = "backoff"
    /\ watchers' = [watchers EXCEPT ![s].link = "up"]
    /\ UNCHANGED <<entry, rpc, requests, stdout, watch_tasks, tasks, next_subscription_id,
                   clientVars, watchVars, argVars, agentVars>>

\* the task of subscription s, cancelled, ends at the suspension point it is at
WatchForeverCancelled(s) ==
    /\ entry = "rpc"
    /\ UNCHANGED sendVars
    /\ tasks[s] = "cancelling"
    /\ tasks' = [tasks EXCEPT ![s] = "done"]
    /\ watchers' = [watchers EXCEPT ![s].link = "none"]
    /\ UNCHANGED <<entry, rpc, requests, stdout, watch_tasks, next_subscription_id, clientVars,
                   watchVars, argVars, agentVars>>

\* RpcServer.__init__
RpcInit ==
    /\ rpc = "reading"
    /\ requests = <<>>
    /\ stdout = <<>>
    /\ watch_tasks = {}
    /\ tasks = [s \in SubIds |-> "none"]
    /\ next_subscription_id = 1
    /\ watchers = [s \in SubIds |-> [from_group |-> "absent", link |-> "none", seen |-> 0]]
    /\ params = NoParams
    /\ sent = [n |-> 0, last |-> NoCommand]

RpcNext ==
    \/ RpcSubscribe
    \/ RpcUnsubscribe
    \/ RpcUnsubscribed
    \/ RpcPlain
    \/ RpcUnknownMethod
    \/ RpcBadParams
    \/ RpcSend
    \/ RpcMessageSend
    \/ RpcSendDone
    \/ RpcInvalidJson
    \/ RpcNonObjectLine
    \/ RpcInterrupt
    \/ RpcEof
    \/ RpcStopped
    \/ \E s \in SubIds : WatchForeverEvent(s)
    \/ \E s \in SubIds : WatchForeverCancelled(s)

\* the line just read is a request with an id
ReadWithId == requests'[Len(requests')].id # NoId

\* the line just read names a gateway
ReadWithUrl == requests'[Len(requests')].url

\* the server with subscriptions and sends, its client giving every request
\* an id and every subscription a gateway, and the connection of the first
\* subscription being one that drops
MuxNext ==
    \/ RpcSubscribe /\ ReadWithId /\ ReadWithUrl
    \/ RpcSend /\ ReadWithId
    \/ RpcSendDone
    \/ \E s \in SubIds : WatchForeverEvent(s)
    \/ \E s \in SubIds : WatchForeverFail(s)
    \/ \E s \in SubIds : WatchForeverReconnect(s)

----------------------------------------------------------------------------
(* cli.py: the segment options of `nap-msg send` and `send-group` *)

\* the segment options: -t, -i, -f, -v, -r
OptionTypes == {"text", "image", "file", "video", "reply"}

\* the command lines: up to MaxOptions segment options, the value of the option
\* at position i being i
CommandLines ==
    UNION {[1 .. n -> [type : OptionTypes, value : 1 .. MaxOptions]] : n \in 0 .. MaxOptions}

\* the value of `parts` before _build_message_segments has run
NotBuilt == <<[type |-> "none", value |-> 0]>>

\* no command line: the process is not `send`
ArgsInit ==
    /\ argv = <<>>
    /\ counters = [t \in OptionTypes |-> 0]
    /\ segments = <<>>
    /\ parts = NotBuilt

\* _SegmentAction.__call__ for the next option of the command line: each call
\* of _segment_action makes a class of its own, so each type has its counter
ParseOption ==
    /\ entry = "send"
    /\ Len(segments) < Len(argv)
    /\ LET o == argv[Len(segments) + 1] IN
          /\ segments' = Append(segments, [order |-> counters[o.type], type |-> o.type,
                                            value |-> o.value])
          /\ counters' = [counters EXCEPT ![o.type] = @ + 1]
    /\ UNCHANGED <<entry, argv, parts, clientVars, watchVars, rpcVars, agentVars>>

\* the place of segs[i] in sorted(segs, key=order): sorted is stable
Place(segs, i) ==
    1 + Cardinality({j \in 1 .. Len(segs) :
                        \/ segs[j].order < segs[i].order
                        \/ segs[j].order = segs[i].order /\ j < i})

\* sorted(segments, key=lambda x: x[0])
Ordered(segs) ==
    [k \in 1 .. Len(segs) |-> segs[CHOOSE i \in 1 .. Len(segs) : Place(segs, i) = k]]

\* _build_message_segments: one part for each tuple, in the sorted order
BuildMessageSegments ==
    /\ entry = "send"
    /\ Len(segments) = Len(argv)
    /\ parts = NotBuilt
    /\ parts' = [k \in 1 .. Len(segments) |->
                    [type |-> Ordered(segments)[k].type, value |-> Ordered(segments)[k].value]]
    /\ UNCHANGED <<entry, argv, counters, segments, clientVars, watchVars, rpcVars, agentVars>>

SendNext ==
    \/ ParseOption
    \/ BuildMessageSegments

----------------------------------------------------------------------------
(* moltbot_client.py: MoltbotGatewayManager *)

\* the calls of send_chat, in the order made; the uuid4 run id of call k is k
Chats == 1 .. NChats

\* a run id of no call, and a runId that is not a string
ForeignRun == 0
NotAString == 0 - 1

\* the states a chat event may carry
ChatStates == {"delta", "final", "error", "aborted"}

\* the frames the gateway client hands to _on_event
GatewayEvents ==
    [event : {"chat", "tick"}, runId : Chats \cup {ForeignRun, NotAString}, state : ChatStates]

\* a table that keeps the run id
Keep(w, k) == w

\* self._waiters.pop(run_id, None)
Pop(w, k) == w \ {k}

\* _send_once is in progress: at one of its awaits
InProgress(k) == agent[k] \in {"connecting", "sending", "waiting", "waiting late"}

\* self._waiters[run_id] = fut, with a new future
Register(k) ==
    /\ waiters' = waiters \cup {k}
    /\ futs' = [futs EXCEPT ![k] = "pending"]

\* _send_once is over with `how`: cf.result returns or raises the same in
\* send_chat, unless send_chat has given up already
Hand(k, how) == caller' = [caller EXCEPT ![k] = IF @ = "blocked" THEN how ELSE @]

\* send_chat: _send_once is scheduled on the manager's loop and runs up to its
\* first await. The daemon, the caller, makes its calls one after the other.
\* _ensure_client returns self._client at once when there is one (made or
\* open), and else makes one and awaits its connect.
SendChat(k) ==
    /\ entry = "agent"
    /\ caller[k] = "none"
    /\ \A j \in Chats : j < k => caller[j] \notin {"none", "blocked"}
    /\ caller' = [caller EXCEPT ![k] = "blocked"]
    /\ IF gateway = "none"
       THEN /\ gateway' = "made"
            /\ agent' = [agent EXCEPT ![k] = "connecting"]
            /\ UNCHANGED <<waiters, futs>>
       ELSE /\ agent' = [agent EXCEPT ![k] = "sending"]
            /\ Register(k)
            /\ UNCHANGED gateway
    /\ UNCHANGED <<entry, settled, clientVars, watchVars, rpcVars, argVars>>

\* connect returns: the waiter is registered and client.send_chat awaited
AgentConnected(k) ==
    /\ entry = "agent"
    /\ agent[k] = "connecting"
    /\ gateway' = IF gateway = "made" THEN "open" ELSE gateway
    /\ agent' = [agent EXCEPT ![k] = "sending"]
    /\ Register(k)
    /\ UNCHANGED <<entry, caller, settled, clientVars, watchVars, rpcVars, argVars>>

\* connect raises, before the try block: no waiter was registered, and
\* self._client keeps the client that did not connect
AgentConnectFailed(k) ==
    /\ entry = "agent"
    /\ agent[k] = "connecting"
    /\ agent' = [agent EXCEPT ![k] = "raised"]
    /\ Hand(k, "raised")
    /\ UNCHANGED <<entry, waiters, futs, gateway, settled, clientVars, watchVars, rpcVars, argVars>>

\* client.send_chat returns and wait_for(fut, wait_timeout) starts, late when
\* connect and send_chat took more than the 5 s send_chat waits on top
AgentSent(k) ==
    /\ entry = "agent"
    /\ agent[k] = "sending"
    /\ \E late \in BOOLEAN :
          agent' = [agent EXCEPT ![k] = IF late THEN "waiting late" ELSE "waiting"]
    /\ UNCHANGED <<entry, caller, waiters, futs, gateway, settled, clientVars, watchVars,
                   rpcVars, argVars>>

\* client.send_chat raises (GatewayError or another): self._client = None,
\* the exception goes on, and `finally` pops the waiter
AgentSendFailed(k) ==
    /\ entry = "agent"
    /\ agent[k] = "sending"
    /\ gateway' = "none"
    /\ agent' = [agent EXCEPT ![k] = "raised"]
    /\ waiters' = Pop(waiters, k)
    /\ Hand(k, "raised")
    /\ UNCHANGED <<entry, futs, settled, clientVars, watchVars, rpcVars, argVars>>

\* wait_for returns the result of the future: _send_once returns the payload
AgentReturn(k) ==
    /\ entry = "agent"
    /\ agent[k] \in {"waiting", "waiting late"}
    /\ futs[k] = "done"
    /\ agent' = [agent EXCEPT ![k] = "returned"]
    /\ waiters' = Pop(waiters, k)
    /\ Hand(k, "payload")
    /\ UNCHANGED <<entry, futs, gateway, settled, clientVars, watchVars, rpcVars, argVars>>

\* wait_for times out: it cancels the future and _send_once returns {}
AgentTimeout(k) ==
    /\ entry = "agent"
    /\ agent[k] \in {"waiting", "waiting late"}
    /\ futs[k] = "pending"
    /\ futs' = [futs EXCEPT ![k] = "cancelled"]
    /\ agent' = [agent EXCEPT ![k] = "empty"]
    /\ waiters' = Pop(waiters, k)
    /\ Hand(k, "empty")
    /\ UNCHANGED <<entry, gateway, settled, clientVars, watchVars, rpcVars, argVars>>

\* cf.result(timeout=wait_timeout + 5) times out in send_chat: the caller goes
\* on, and _send_once, which nothing cancels, goes on in the manager's loop
SendChatGivesUp(k) ==
    /\ entry = "agent"
    /\ caller[k] = "blocked"
    /\ agent[k] \in {"connecting", "sending", "waiting late"}
    /\ caller' = [caller EXCEPT ![k] = "gave up"]
    /\ UNCHANGED <<entry, agent, waiters, futs, gateway, settled, clientVars, watchVars,
                   rpcVars, argVars>>

\* the states that resolve a waiter
ResolvingStates == {"final", "error", "aborted"}

\* _on_event(frame): the effect on the future of run id k
OnEventFor(f, k) ==
    IF f.event # "chat" THEN "ignore"
    ELSE IF f.runId \notin Chats \cup {ForeignRun} THEN "ignore"
    ELSE IF f.runId # k \/ k \notin waiters THEN "ignore"
    ELSE IF f.state \notin ResolvingStates THEN "ignore"
    ELSE IF futs[k] # "pending" THEN "ignore"
    ELSE "set_result"

\* the gateway client calls _on_event with a frame
OnEvent ==
    /\ entry = "agent"
    /\ gateway = "open"
    /\ \E f \in GatewayEvents :
          /\ futs' = [k \in Chats |-> IF OnEventFor(f, k) = "set_result" THEN "done" ELSE futs[k]]
          /\ settled' = [k \in Chats |->
                            IF OnEventFor(f, k) = "set_result" THEN Append(settled[k], f.state)
                            ELSE settled[k]]
    /\ UNCHANGED <<entry, agent, caller, waiters, gateway, clientVars, watchVars, rpcVars, argVars>>

\* the gateway client calls _on_close
OnClose ==
    /\ entry = "agent"
    /\ gateway = "open"
    /\ gateway' = "none"
    /\ UNCHANGED <<entry, agent, caller, waiters, futs, settled, clientVars, watchVars, rpcVars,
                   argVars>>

\* MoltbotGatewayManager.__init__
AgentInit ==
    /\ agent = [k \in Chats |-> "idle"]
    /\ caller = [k \in Chats |-> "none"]
    /\ waiters = {}
    /\ futs = [k \in Chats |-> "none"]
    /\ gateway = "none"
    /\ settled = [k \in Chats |-> <<>>]

AgentNext ==
    \/ \E k \in Chats : SendChat(k)
    \/ \E k \in Chats : AgentConnected(k)
    \/ \E k \in Chats : AgentConnectFailed(k)
    \/ \E k \in Chats : AgentSent(k)
    \/ \E k \in Chats : AgentSendFailed(k)
    \/ \E k \in Chats : AgentReturn(k)
    \/ \E k \in Chats : AgentTimeout(k)
    \/ \E k \in Chats : SendChatGivesUp(k)
    \/ OnEvent
    \/ OnClose

----------------------------------------------------------------------------
(* The program *)

\* the configuration of a run that does not use the watch loop
DefaultConfig ==
    [from_group |-> "absent", from_user |-> "absent", ignore_prefixes |-> <<<<"/">>>>,
     creds |-> TRUE]

Init ==
    /\ ClientInit
    /\ WatchInit
    /\ RpcInit
    /\ ArgsInit
    /\ AgentInit
    /\ \/ entry = "client" /\ cfg = DefaultConfig
       \/ entry = "watch" /\ cfg \in Configs
       \/ entry = "cli" /\ cfg \in CliConfigs
       \/ entry = "daemon" /\ cfg \in DaemonConfigs

ClientNext ==
    \/ \E c \in Calls : SendCommand(c)
    \/ \E c \in Calls : ConnectOk(c)
    \/ \E c \in Calls : ConnectFail(c)
    \/ \E c \in Calls : RecvFrame(c)
    \/ \E c \in Calls : RecvTimeout(c)
    \/ \E c \in Calls : TransportFail(c)
    \/ ClientTick

WatchNext ==
    \/ WatchConnectOk
    \/ WatchConnectFail
    \/ GatewaySend
    \/ GatewayClose
    \/ WatchRecv
    \/ WatchLoopEnd
    \/ WatchConnError
    \/ BackoffTick
    \/ BackoffDone
    \/ WatchCancel
    \/ VoiceConnectOk
    \/ VoiceConnectFail
    \/ VoicePoll
    \/ VoicePollFail
    \/ VoiceDownload
    \/ VoiceAsr

CliNext ==
    \/ CliRecv
    \/ CliFetchVoice
    \/ CliAsr

DaemonNext == DaemonRecv

Next == ClientNext \/ WatchNext \/ CliNext \/ DaemonNext

Spec == Init /\ [][Next]_vars

\* no subscription has a filter; one for group 100 on the first subscription
NoFilters == [s \in SubIds |-> "absent"]
FirstFiltered == [s \in SubIds |-> IF s = 1 THEN "100" ELSE "absent"]

\* a send of a message to group 42
GroupSend ==
    [method |-> "send", channel |-> "group", group_id |-> Group42, user_id |-> <<>>,
     message |-> TRUE, messages |-> FALSE]

\* The clients of the RPC server, each by the kinds of line it writes, the
\* params of its `send` lines, the from_group it subscribes with, the groups
\* whose events its gateway carries and the subscriptions whose connection
\* drops: one that watches, one that sends, one that probes the protocol
RpcClients ==
    { [lines |-> {"watch.subscribe", "watch.unsubscribe", "unknown"}, sends |-> {},
       filters |-> NoFilters, groups |-> {"100"}, flaky |-> {}],
      [lines |-> {"send", "message.send"}, sends |-> SendParams,
       filters |-> NoFilters, groups |-> {"100"}, flaky |-> {}],
      [lines |-> {"plain", "unknown", "bad params", "invalid json", "not an object"},
       sends |-> {}, filters |-> NoFilters, groups |-> {"100"}, flaky |-> {}] }

\* a client that watches several feeds, the first of group 100 only, and sends
\* to a group
MuxClient ==
    [lines |-> {"watch.subscribe", "send"}, sends |-> {GroupSend},
     filters |-> FirstFiltered, groups |-> {"100", "200"}, flaky |-> {1}]

\* The RPC server (`nap-msg rpc`): a process of its own, reading stdin
RpcOnlyInit ==
    /\ ClientInit
    /\ WatchInit
    /\ RpcInit
    /\ ArgsInit
    /\ AgentInit
    /\ entry = "rpc"
    /\ cfg \in RpcClients

RpcSpec == RpcOnlyInit /\ [][RpcNext]_vars

\* The RPC server with several subscriptions and sends
MuxInit ==
    /\ ClientInit
    /\ WatchInit
    /\ RpcInit
    /\ ArgsInit
    /\ AgentInit
    /\ entry = "rpc"
    /\ cfg = MuxClient

MuxSpec == MuxInit /\ [][MuxNext]_vars

\* `nap-msg send` and `send-group`: the parsing of the segment options
SendInit ==
    /\ ClientInit
    /\ WatchInit
    /\ RpcInit
    /\ AgentInit
    /\ entry = "send"
    /\ cfg = DefaultConfig
    /\ argv \in CommandLines
    /\ \A i \in 1 .. Len(argv) : argv[i].value = i
    /\ counters = [t \in OptionTypes |-> 0]
    /\ segments = <<>>
    /\ parts = NotBuilt

SendSpec == SendInit /\ [][SendNext]_vars

\* The manager of the agent backend and the daemon's calls of send_chat
AgentOnlyInit ==
    /\ ClientInit
    /\ WatchInit
    /\ RpcInit
    /\ ArgsInit
    /\ AgentInit
    /\ entry = "agent"
    /\ cfg = DefaultConfig

AgentSpec == AgentOnlyInit /\ [][AgentNext]_vars

----------------------------------------------------------------------------
(* Claims about send_command *)

\* the calls whose send_command returned a frame of the gateway as the reply
Replied == {c \in Calls : result[c].cause = "reply"}

\* C2: while send_command waits, a frame without an echo is never returned as
\* the reply; only a frame whose echo equals the command's echo is returned.
C2_OnlyOwnEchoReturned ==
    \A c \in Replied : result[c].data.echo = echo[c]

\* C3: a frame whose echo is not empty and differs from the echo of the waiting
\* command is never returned by send_command.
C3_ForeignEchoNeverReturned ==
    \A c \in Replied : ~(Truthy(result[c].data.echo) /\ result[c].data.echo # echo[c])

\* C3, its case: a frame bearing another echo was delivered to a waiting call,
\* which still waits
C3_Witness ==
    /\ heard.call \in Calls
    /\ Truthy(heard.frame.echo)
    /\ heard.frame.post_type # "meta_event"
    /\ heard.frame.echo # echo[heard.call]
    /\ pc[heard.call] = "waiting"

\* C4: a frame with post_type "meta_event" is never returned as the reply of
\* send_command, never accepted as the response of _fetch_voice, and never
\* emitted as a record by the watch loop, whatever else it carries.
C4_MetaNeverDelivered ==
    /\ \A c \in Replied : result[c].data.post_type # "meta_event"
    /\ vresp.post_type # "meta_event"
    /\ \A i \in 1 .. Len(emitted) : emitted[i].of # "meta_event"

\* C4, its case: a lifecycle frame that bears the echo of the waiting command and
\* a status was delivered to it, and the call still waits
C4_Witness ==
    /\ heard.call \in Calls
    /\ heard.frame.post_type = "meta_event"
    /\ heard.frame.echo = echo[heard.call]
    /\ Truthy(heard.frame.status)
    /\ pc[heard.call] = "waiting"

\* C5: send_command returns the timeout once the caller's timeout has elapsed
\* since the command was sent, so no call is still waiting after that time, even
\* when frames that are skipped keep arriving.
C5_TimeoutSinceSend ==
    \A c \in Calls : pc[c] = "waiting" => total[c] <= TimeoutTicks

\* C6: a timeout of send_command is a return value {status: "timeout", echo: E}
\* with E the echo of the command; a transport failure is raised.
C6_TimeoutIsValue ==
    \A c \in Calls :
        /\ result[c].cause = "timeout" =>
              /\ result[c].kind = "return"
              /\ result[c].data.status = "timeout"
              /\ result[c].data.echo = echo[c]
              /\ Truthy(echo[c])
        /\ result[c].cause = "transport" => result[c].kind = "raise"

\* C6, its case: one call has timed out and another has lost its transport
C6_Witness ==
    \E c, d \in Calls : result[c].cause = "timeout" /\ result[d].cause = "transport"

\* C7: with concurrent calls bearing distinct echoes, a call that resolves to a
\* reply while the other calls are in flight resolves to the frame with its own
\* echo.
C7_ConcurrentOwnReply ==
    \A c \in Replied :
        (/\ \A d \in Calls \ {c} : pc[d] \in {"connecting", "waiting"}
         /\ \A d \in Calls \ {c} : echo[d] # echo[c])
        => result[c].data.echo = echo[c]

----------------------------------------------------------------------------
(* Claims about the watch loop *)

\* a step of the loop itself, once the await it is at can return
LoopStep ==
    \/ WatchRecv
    \/ WatchLoopEnd
    \/ WatchConnError
    \/ BackoffTick
    \/ BackoffDone
    \/ VoiceConnectOk
    \/ VoiceConnectFail
    \/ VoicePoll
    \/ VoicePollFail
    \/ VoiceDownload
    \/ VoiceAsr

\* the program started as `watch`
WatchOnlyInit == Init /\ entry = "watch"

\* The watch loop alone, under fairness: the loop is a single task, so the step
\* it can take is taken in the end (a frame in the socket is read, a receive
\* returns or times out, a sleep ends), and a gateway that is asked again and
\* again accepts a connection in the end.
LiveSpec ==
    /\ WatchOnlyInit
    /\ [][WatchNext]_vars
    /\ WF_vars(LoopStep)
    /\ SF_vars(WatchConnectOk)

\* the message_ids of the records written so far, in order
EmittedIds == [i \in 1 .. Len(emitted) |-> emitted[i].message_id]

\* the frame in `event` is a message event whose whole text is "/new"
IsNewCommand(f) ==
    /\ f.json = "obj"
    /\ f.post_type = "message"
    /\ ExtractTextAndRecord(f).text = <<"/", "n", "e", "w">>

\* C1: with ignore_prefixes = ["/"], a message event whose first non-blank line
\* is the passthrough command "/new" is not dropped: a record is emitted for it.
C1_PassthroughEmitted ==
    (/\ entry = "watch"
     /\ cfg.ignore_prefixes = << <<"/">> >>
     /\ ~Truthy(cfg.from_group)
     /\ ~Truthy(cfg.from_user)
     /\ IsNewCommand(event))
    => /\ fate = "emitted"
       /\ emitted # <<>>
       /\ emitted[Len(emitted)].message_id = event.message_id

\* C8: the loop starts a connection attempt, other than its first, only out of
\* a backoff that has lasted the full 3 seconds.
C8_BackoffBeforeReconnect ==
    [][(wpc # "connecting" /\ wpc' = "connecting")
          => (wpc = "backoff" /\ slept = BackoffSecs)]_vars

\* C9: once the transport of the loop is severed the loop connects again without
\* intervention, as often as it takes (unless it is cancelled); every frame that
\* reaches its socket is read; and no event is emitted twice, every record being
\* of an event that was read.
C9_ReconnectLiveness ==
    /\ (link \in {"closed_ok", "closed_err"} \/ wpc = "backoff")
          ~> (link = "open" \/ wpc = "cancelled")
    /\ (inbox # <<>>) ~> (inbox = <<>>)
    /\ [](\A i, j \in 1 .. Len(emitted) :
             /\ i # j => emitted[i].message_id # emitted[j].message_id
             /\ \E k \in 1 .. Len(received) : received[k] = emitted[i].message_id)
    /\ [](fate = "emitted" =>
             emitted # <<>> /\ emitted[Len(emitted)].message_id = event.message_id)

\* C9, its case: events 1 and 2 were read and emitted, the connection was lost, and
\* event 3, which came over the connection made after that, has been emitted
C9_Witness ==
    /\ link = "open"
    /\ cut = 2
    /\ received = <<1, 2, 3>>
    /\ EmittedIds = <<1, 2, 3>>

\* C10: the records are emitted in the order in which their events were read from
\* the socket, whether or not their text came from a voice record.
C10_OrderPreserved ==
    \A i, j \in 1 .. Len(emitted) :
        i < j =>
            \E a, b \in 1 .. Len(received) :
                /\ a < b
                /\ received[a] = emitted[i].message_id
                /\ received[b] = emitted[j].message_id

\* C10, its case: a record whose text was transcribed from a voice record was
\* emitted, and the record of a text event read after it follows it
C10_Witness ==
    /\ entry = "watch"
    /\ Len(emitted) >= 2
    /\ emitted[1].raw_message = <<"o", "k">>
    /\ emitted[2].raw_message = <<"h", "i">>
    /\ emitted[1].message_id < emitted[2].message_id

----------------------------------------------------------------------------
(* Claims about voice events *)

\* C12: in watch.py's loop, when the voice of an event cannot be fetched or transcribed (connection
\* failure, timeout, undecodable reply, failed or empty transcription) no record
\* is written for the event and the loop goes on where it was: on the same
\* connection, not in the backoff, ready to read the next frame, with the frames
\* waiting in its socket untouched.
C12_VoiceFailureContained ==
    [][(entry = "watch" /\ wpc = "resolving" /\ wpc' \notin {"resolving", "cancelled"})
          => /\ wpc' = "connected"
             /\ CanRead'
             /\ link' = link
             /\ inbox' = inbox
             /\ cut' = cut
             /\ slept' = slept
             /\ event' = event
             /\ fate' \in {"emitted", "unresolved"}
             /\ fate' = "unresolved" => emitted' = emitted
             /\ fate' = "emitted" => spoken'.said /\ spoken'.text # <<>>]_vars

\* C12, its case: the voice of an event could not be turned into text, nothing
\* was written for it, and the loop is on its open connection with the next
\* frame at hand
C12_Witness ==
    /\ entry = "watch"
    /\ fate = "unresolved"
    /\ RecordFile(event.message.segs) # <<>>
    /\ emitted = <<>>
    /\ wpc = "connected"
    /\ link = "open"
    /\ inbox # <<>>

\* frame f is a message event that passes the from_group and from_user filters
\* of configuration c
Addressed(f, c) ==
    /\ f.json = "obj"
    /\ f.post_type = "message"
    /\ Truthy(c.from_group) => f.group_id = c.from_group
    /\ Truthy(c.from_user) => f.user_id = c.from_user

\* the event at hand has a text that the stripping leaves empty, and a voice
\* record
StrippedToVoice(f) ==
    /\ ExtractTextAndRecord(f).text # <<>>
    /\ StripCqAndWhitespace(ExtractTextAndRecord(f).text) = <<>>
    /\ ExtractTextAndRecord(f).record # <<>>

\* C13: an event whose text is empty once the markup is stripped and which has a
\* voice record is not dropped at the strip step: with credentials configured its
\* voice is fetched and transcribed.
C13_StrippedVoiceProceeds ==
    (/\ entry = "watch"
     /\ cfg.creds
     /\ Addressed(event, cfg)
     /\ StrippedToVoice(event))
    => fate \in {"resolving", "emitted", "unresolved"}

\* C14: the ignore-prefix filter is applied to the resolved text: no record is
\* written for a voice event whose transcription has a first non-blank line that
\* starts with an ignored prefix.
C14_TranscriptionFiltered ==
    (/\ entry = "watch"
     /\ fate = "emitted"
     /\ spoken.said)
    => ~IgnoredByPrefix(spoken.text, cfg.ignore_prefixes)

----------------------------------------------------------------------------
(* Claims about the filters of the loops *)

\* position of the first token of t that is not white space (0 if there is none)
FirstInk(t) ==
    IF \A i \in 1 .. Len(t) : IsSpace(t[i]) THEN 0
    ELSE CHOOSE i \in 1 .. Len(t) : ~IsSpace(t[i]) /\ \A j \in 1 .. (i - 1) : IsSpace(t[j])

\* the first non-blank line of t, its leading white space removed, starts with pfx
LeadsWith(t, pfx) ==
    LET i == FirstInk(t)
        n == Len(pfx)
    IN  /\ i > 0
        /\ i + n - 1 <= Len(t)
        /\ \A j \in 1 .. n : t[i + j - 1] = pfx[j] /\ pfx[j] # "LF"

\* the text the prefix filter of watch.py is given for event f
FilteredText(f) == StripCqAndWhitespace(ExtractTextAndRecord(f).text)

\* frame f gets as far as the prefix test of the daemon under configuration c
DaemonAddressed(f, c) ==
    /\ f.json = "obj"
    /\ f.message_type \in {"group", "private"}
    /\ c.allow_senders # {} => f.user_id \in c.allow_senders
    /\ DaemonExtractText(f) # <<>>

\* C15: the ignore-prefix filter looks at the first non-blank line of the text
\* only, leading white space removed: an event that has a text is dropped by the
\* filter exactly when that line starts with an ignored prefix, so it is kept
\* when only a later line starts with one (watch loop and daemon alike).
C15_FirstLineOnly ==
    /\ (/\ entry = "watch"
        /\ Addressed(event, cfg)
        /\ FilteredText(event) # <<>>)
       => /\ fate \in {"skipped", "emitted"}
          /\ fate = "skipped" <=>
                \E k \in 1 .. Len(cfg.ignore_prefixes) :
                    LeadsWith(FilteredText(event), cfg.ignore_prefixes[k])
    /\ (/\ entry = "daemon"
        /\ DaemonAddressed(event, cfg))
       => /\ fate \in {"skipped", "forwarded", "answered"}
          /\ fate = "skipped" <=>
                \E k \in 1 .. Len(cfg.ignore_prefixes) :
                    LeadsWith(DaemonExtractText(event), cfg.ignore_prefixes[k])

\* C15, its case: under the prefix "/" an event whose text is "hi" followed by
\* the line "/x" was kept (the event "/foo" is dropped under the same filter)
C15_Witness ==
    /\ entry = "watch"
    /\ cfg.ignore_prefixes = << <<"/">> >>
    /\ ExtractTextAndRecord(event).text = <<"h", "i", "LF", "/", "x">>
    /\ fate = "emitted"
    /\ Handling[GroupEvent("100", ListMessage(<<TextSeg(<<"/", "f", "o", "o">>)>>)), cfg].do
          = "skip"

----------------------------------------------------------------------------
(* Claims about _fetch_voice *)

\* the websocket connections the task of the loop holds open: the one of
\* `async with websockets.connect(url)` of _watch_loop, and the one of
\* `async with websockets.connect(napcat_ws)` of _fetch_voice
OpenConnections ==
    (IF wpc \in {"connected", "resolving"} THEN 1 ELSE 0)
    + (IF entry = "watch" /\ vpc = "poll" THEN 1 ELSE 0)

\* C16: the get_record request of a voice event goes over the connection the
\* event came in on: while the voice is being fetched the loop holds no
\* connection other than that one.
C16_SameConnection ==
    (entry = "watch" /\ wpc = "resolving") => OpenConnections = 1

\* C17: the polling of _fetch_voice ends, whatever frames the gateway sends:
\* never more than 10 receives are made for one voice record, every receive that
\* does not end the polling is counted, the polling is left in the end, and a
\* frame taken as the response is an object that is not a meta event, whose
\* echo is the request's or missing, and that has a status.
C17_VoicePollingTerminates ==
    /\ [](vpc = "poll" => vpolls + 1 <= 10)
    /\ [][(vpc = "poll" /\ vpc' = "poll" /\ received' = received /\ inbox' = inbox
             /\ link' = link /\ nsent' = nsent)
            => vpolls' = vpolls + 1]_vars
    /\ (vpc = "poll") ~> (vpc # "poll")
    /\ [](vresp # NoFrame =>
             /\ vresp.json = "obj"
             /\ vresp.post_type # "meta_event"
             /\ ~Truthy(vresp.echo) \/ vresp.echo = VoiceEcho
             /\ Truthy(vresp.status))

\* C17, its case: four frames in a row were passed over by the poll loop, which
\* is about to make its last receive
C17_Witness ==
    /\ vpc = "poll"
    /\ vpolls = VoicePolls - 1

----------------------------------------------------------------------------
(* Claims about what the `watch` pipeline writes *)

\* the event has a voice record and no text
VoiceOnly(f) ==
    /\ ExtractTextAndRecord(f).text = <<>>
    /\ ExtractTextAndRecord(f).record # <<>>

\* the event has neither a text nor a record segment
NoTextNoVoice(f) ==
    /\ ExtractTextAndRecord(f).text = <<>>
    /\ \A i \in 1 .. Len(f.message.segs) : f.message.segs[i].type # "record"

\* the text a written record carries for its event: resolved_text in the
\* records of cli.py, raw_message in those of watch.py
RecordText(rec) ==
    IF "resolved_text" \in DOMAIN rec THEN rec.resolved_text ELSE rec.raw_message

\* C11: for an event that has only a voice record, a record is written if and
\* only if the credentials are configured and the transcription gave a text that
\* is not empty, and the text of the record is that transcription; without
\* credentials nothing is written for the event.
C11_VoiceOnlyEmission ==
    (/\ entry \in {"watch", "cli"}
     /\ Addressed(event, cfg)
     /\ VoiceOnly(event)
     /\ fate # "resolving")
    => /\ fate = "emitted" <=> (cfg.creds /\ spoken.said /\ spoken.text # <<>>)
       /\ fate = "emitted" =>
             /\ emitted # <<>>
             /\ emitted[Len(emitted)].message_id = event.message_id
             /\ RecordText(emitted[Len(emitted)]) = spoken.text

\* C18: no record is ever written for an event that has no text and no voice
\* record (an event with only an image, say).
C18_NoTextNoVoiceDropped ==
    (/\ entry \in {"watch", "cli"}
     /\ event.json = "obj"
     /\ NoTextNoVoice(event))
    => \A i \in 1 .. Len(emitted) : emitted[i].message_id # event.message_id

----------------------------------------------------------------------------
(* Claims about watch.unsubscribe *)

\* the number of subscriptions created by the requests before the k-th: the
\* ids issued when the k-th request is read
IssuedBefore(k) ==
    Cardinality({m \in 1 .. (k - 1) :
                    requests[m].method = "watch.subscribe" /\ requests[m].url})

\* line i is the {ok: true} answer to a watch.unsubscribe of a subscription
\* that had been created when the request was read
UnsubscribeOk(i) ==
    /\ stdout[i].kind = "result"
    /\ stdout[i].ok
    /\ requests[stdout[i].id].method = "watch.unsubscribe"
    /\ requests[stdout[i].id].sub <= IssuedBefore(stdout[i].id)

\* C19: when the {ok: true} answer to a watch.unsubscribe is written, the task of
\* the subscription has been cancelled and has ended and is out of the table, and
\* no notification tagged with the id of the subscription follows the answer.
C19_UnsubscribeAwaitsTask ==
    entry = "rpc" =>
        \A i \in 1 .. Len(stdout) :
            UnsubscribeOk(i) =>
                LET s == requests[stdout[i].id].sub
                IN  /\ tasks[s] = "done"
                    /\ s \notin watch_tasks
                    /\ \A j \in (i + 1) .. Len(stdout) :
                           ~(stdout[j].kind = "message" /\ stdout[j].sub = s)

\* C19, its case: subscription 1 wrote a notification, was unsubscribed and
\* answered, and subscription 2 wrote a notification after that
C19_Witness ==
    /\ entry = "rpc"
    /\ \E i, j, k \in 1 .. Len(stdout) :
          /\ i < j /\ j < k
          /\ Written(stdout[i]) = MessageLine(1)
          /\ UnsubscribeOk(j)
          /\ requests[stdout[j].id].sub = 1
          /\ Written(stdout[k]) = MessageLine(2)

\* C20: a watch.unsubscribe of an id that has no task in the table (never issued,
\* or unsubscribed before) is answered {ok: true} at once, without an error and
\* without waiting, and leaves the table and every task as they were.
C20_InactiveUnsubscribeBenign ==
    [][(/\ entry = "rpc"
        /\ Len(requests') = Len(requests) + 1
        /\ requests'[Len(requests')].method = "watch.unsubscribe"
        /\ requests'[Len(requests')].sub # NoParam
        /\ requests'[Len(requests')].sub \notin watch_tasks)
          => /\ rpc' = "reading"
             /\ stdout' = WriteLine(stdout, ResultLine(requests'[Len(requests')].id, 0, TRUE))
             /\ watch_tasks' = watch_tasks
             /\ tasks' = tasks
             /\ next_subscription_id' = next_subscription_id]_vars

\* C20, its case: with subscription 1 active, a watch.unsubscribe of subscription
\* 2, which was never created, was answered {ok: true}, and subscription 1 is still
\* running and in the table
C20_Witness ==
    /\ entry = "rpc"
    /\ rpc = "reading"
    /\ Len(requests) = 2
    /\ requests[1].method = "watch.subscribe" /\ requests[1].url
    /\ requests[2].method = "watch.unsubscribe" /\ requests[2].sub = 2
    /\ requests[2].id # NoId
    /\ stdout # <<>>
    /\ stdout[Len(stdout)] = ResultLine(requests[2].id, 0, TRUE)
    /\ tasks[1] = "running"
    /\ tasks[2] = "none"
    /\ watch_tasks = {1}

----------------------------------------------------------------------------
(* Claims about the serve loop *)

\* serve is over
ServeOver == rpc \in {"stopped", "crashed", "interrupted"}

\* C21: once the serve loop has ended, in whatever way, every task of a
\* subscription has been cancelled and has ended, and the table of subscriptions
\* is empty.
C21_ShutdownCancelsAll ==
    (entry = "rpc" /\ ServeOver)
    => /\ watch_tasks = {}
       /\ \A s \in SubIds : tasks[s] \in {"none", "done"}

\* the lines of stdout that answer a successful watch.subscribe
SubscribeResults == {i \in 1 .. Len(stdout) : stdout[i].kind = "result" /\ stdout[i].sub # 0}

\* C22: the ids returned by watch.subscribe grow strictly and none is used
\* twice: the ids in the answers written so far are in strictly increasing order,
\* each id of the table has its one task, a step that creates a task gives it an
\* id above every id used before, and no id that has had a task gets a new one.
C22_IdsIncreaseNeverReused ==
    /\ [](entry = "rpc" =>
            /\ \A i, j \in SubscribeResults : i < j => stdout[i].sub < stdout[j].sub
            /\ \A s \in watch_tasks : tasks[s] # "none"
            /\ \A s \in SubIds : tasks[s] # "none" => s < next_subscription_id)
    /\ [][\A s \in SubIds :
             /\ (tasks[s] # "running" /\ tasks'[s] = "running")
                => /\ tasks[s] = "none"
                   /\ \A t \in SubIds : tasks[t] # "none" => t < s
             /\ tasks[s] # "none" => tasks'[s] # "none"]_vars

\* a subscription was made, cancelled, and another made after it
C22_Witness ==
    /\ entry = "rpc"
    /\ Len(requests) = 3
    /\ requests[2].method = "watch.unsubscribe"
    /\ 1 \notin watch_tasks /\ tasks[1] = "done"
    /\ 2 \in watch_tasks /\ tasks[2] = "running"
    /\ \E i, j \in SubscribeResults : stdout[i].sub = 1 /\ stdout[j].sub = 2

\* C23: no line of input ends the serve loop: after a line that is not valid
\* JSON, that is JSON but not an object, that has params that are not an object,
\* or that names an unknown method, serve is still running.
C23_NoLineEndsServe ==
    (entry = "rpc" /\ requests # <<>>) => rpc # "crashed"

\* the line serve has just read in this step
JustRead == requests'[Len(requests')]

\* params of `send` that are malformed: neither a channel nor an id, a channel
\* that is not supported, or no message (no messages, for a forward)
Malformed(p) ==
    \/ p.channel = "none" /\ p.group_id = <<>> /\ p.user_id = <<>>
    \/ p.channel \notin {"none", "group", "private", "group_forward"}
    \/ ChannelOf(p) = "group_forward" /\ ~p.messages
    \/ ChannelOf(p) \in {"group", "private"} /\ ~p.message

\* C24: a `send` with malformed params is answered with the error -32602, and
\* no command goes to the gateway.
C24_MalformedSendRejected ==
    [][(entry = "rpc" /\ Len(requests') = Len(requests) + 1 /\ params'.method = "send"
          /\ Malformed(params'))
       => /\ stdout' = WriteLine(stdout, ErrorLine(JustRead.id, 0 - 32602))
          /\ sent' = sent]_vars

\* the lines of stdout that answer the request of line i
Responses(i) == {k \in 1 .. Len(stdout) : stdout[k].kind # "message" /\ stdout[k].id = i}

\* C25: every request object with an id gets one response with that id, and
\* only such responses are written: once serve is done with a request there is
\* exactly one response to it, never more than one before, none for a line
\* without id, and each response carries the id of a request read.
C25_OneResponsePerRequest ==
    entry = "rpc" =>
       /\ \A i \in 1 .. Len(requests) :
             /\ requests[i].id = NoId => Responses(i) = {}
             /\ requests[i].id # NoId =>
                   /\ requests[i].id = i
                   /\ Cardinality(Responses(i)) <= 1
                   /\ (i < Len(requests) \/ rpc \notin {"cancelling", "sending"})
                         => Cardinality(Responses(i)) = 1
       /\ \A k \in 1 .. Len(stdout) :
             stdout[k].kind # "message" =>
                 /\ stdout[k].id \in 1 .. Len(requests)
                 /\ requests[stdout[k].id].id = stdout[k].id

\* a request without id between two with one, answered by a result and an error
C25_Witness ==
    /\ entry = "rpc"
    /\ rpc = "reading"
    /\ Len(requests) = 3
    /\ requests[1].id = 1 /\ requests[2].id = NoId /\ requests[3].id = 3
    /\ requests[3].method = "send"
    /\ \E k \in Responses(1) : stdout[k].kind = "error"
    /\ \E k \in Responses(3) : stdout[k].kind = "result"

\* the methods _handle_request knows
KnownMethods ==
    {"initialize", "watch.subscribe", "watch.unsubscribe", "message.send", "send",
     "messages.history", "chats.list"}

\* C26: a request whose method is none of the known ones is answered with the
\* error -32601 and changes nothing in the server: no subscription is made or
\* cancelled, no command is sent.
C26_UnknownMethodNoEffect ==
    [][(entry = "rpc" /\ Len(requests') = Len(requests) + 1 /\ JustRead.params = "object"
          /\ JustRead.method \notin KnownMethods)
       => /\ stdout' = WriteLine(stdout, ErrorLine(JustRead.id, 0 - 32601))
          /\ UNCHANGED <<rpc, watch_tasks, tasks, next_subscription_id, sent>>]_vars

\* a request for an unknown method read while a subscription is active
C26_Witness ==
    /\ entry = "rpc"
    /\ Len(requests) = 2
    /\ Current.method \in UnknownMethods /\ Current.id = 2
    /\ watch_tasks = {1} /\ tasks[1] = "running"
    /\ stdout[Len(stdout)] = ErrorLine(2, 0 - 32601)

\* the target "<prefix><id>"
Prefixed(prefix, id) == prefix \o id

\* C27: message.send routes by the prefix of the target: "group-<id>" and
\* "group:<id>" go out as a group message to <id>, "user-<id>" and "user:<id>"
\* as a private message to <id>, and a bare <id> without isGroup flag as a
\* private message to <id>.
C27_RoutesByPrefix ==
    (entry = "rpc" /\ rpc = "sending" /\ params.method = "message.send") =>
       \A id \in {Group42, User77} :
          /\ params.to \in {Prefixed(<<"g", "r", "o", "u", "p", "-">>, id),
                             Prefixed(<<"g", "r", "o", "u", "p", ":">>, id)}
                => sent.last = [action |-> "send_group_msg", dest |-> id]
          /\ params.to \in {Prefixed(<<"u", "s", "e", "r", "-">>, id),
                             Prefixed(<<"u", "s", "e", "r", ":">>, id)}
                => sent.last = [action |-> "send_private_msg", dest |-> id]
          /\ (params.to = id /\ params.isGroup = "absent")
                => sent.last = [action |-> "send_private_msg", dest |-> id]

\* "group-42" has gone out as a group message to 42
C27_Witness ==
    /\ entry = "rpc"
    /\ rpc = "sending"
    /\ params.method = "message.send"
    /\ params.to = <<"g", "r", "o", "u", "p", "-", "4", "2">>
    /\ sent.last = [action |-> "send_group_msg", dest |-> Group42]

----------------------------------------------------------------------------
(* Claims about the CLI's message *)

\* C28: the message the CLI builds has the segments in the order of the options
\* on the command line, whatever the sequence of options.
C28_CommandLineOrder ==
    (entry = "send" /\ parts # NotBuilt) => parts = argv

----------------------------------------------------------------------------
(* Claims about malformed frames and the sender allow-list *)

\* C29: a malformed frame ends neither the wait for a reply nor the watch
\* connection: no send_command call is over because of a payload that is not
\* JSON or not a JSON object, and the watch loop, having read such a payload,
\* has passed it over and is still on its connection.
C29_MalformedFrameDiscarded ==
    /\ entry = "client" => \A c \in Calls : result[c].cause # "decode"
    /\ (entry = "watch" /\ event.json \in {"bad", "list"})
          => (fate = "skipped" /\ wpc = "connected")

\* frame f passes every filter of the daemon other than the one of the sender
PassesOtherFilters(f, c) ==
    /\ f.json = "obj"
    /\ f.message_type \in {"group", "private"}
    /\ DaemonExtractText(f) # <<>>
    /\ ~DaemonIgnored(DaemonExtractText(f), c.ignore_prefixes)

\* C30: with a non-empty allow-list, no event of a sender outside it is given
\* to the agent or answered on the gateway; with an empty allow-list no event
\* is dropped for its sender: one that passes the other filters is given to
\* the agent.
C30_AllowListFilters ==
    (entry = "daemon" /\ fate # "none") =>
       /\ (cfg.allow_senders # {} /\ event.user_id \notin cfg.allow_senders)
             => fate \notin {"forwarded", "answered"}
       /\ (cfg.allow_senders = {} /\ PassesOtherFilters(event, cfg))
             => fate \in {"forwarded", "answered"}

\* under the allow-list {u1} an event of u2 with a text was dropped
C30_Witness ==
    /\ entry = "daemon"
    /\ cfg.allow_senders = {"u1"}
    /\ event.user_id = "u2"
    /\ PassesOtherFilters(event, cfg)
    /\ fate = "skipped"

----------------------------------------------------------------------------
\* the calls whose Command has been built
Built == {c \in Calls : pc[c] # "idle"}

\* the calls whose command is in flight: sent or being sent, not yet returned
InFlight == {c \in Calls : pc[c] \in {"connecting", "waiting"}}

\* C33: every Command the dispatcher builds gets an echo of its own: no two
\* commands in flight at the same time carry the same echo, no echo is used
\* for more than one command, and a command keeps the echo it was built with.
C33_FreshEcho ==
    /\ [](entry = "client" =>
            /\ \A c \in Built : echo[c] \in Echoes
            /\ \A c, d \in Built : c # d => echo[c] # echo[d])
    /\ [][\A c \in Built : echo'[c] = echo[c]]_vars

\* two commands are in flight at the same time
C33_Witness ==
    /\ entry = "client"
    /\ Cardinality(InFlight) >= 2

----------------------------------------------------------------------------
\* C32: a watch task cancelled at any suspension point (connecting, waiting
\* for a frame, waiting on voice materialization, sleeping in backoff) ends
\* instead of going on to reconnect, with its connection and the one of
\* _fetch_voice closed; once ended it takes no further step.
C32_CancelEndsTask ==
    /\ [](entry = "watch" /\ cancel_at # NotCancelled =>
            /\ wpc = "cancelled"
            /\ link = "none"
            /\ vpc = "idle")
    /\ [][(entry = "watch" /\ wpc = "cancelled") => UNCHANGED watchVars]_vars

\* the task was cancelled while _fetch_voice waited for the gateway's answer
C32_Witness ==
    /\ entry = "watch"
    /\ cancel_at = [wpc |-> "resolving", vpc |-> "poll"]
    /\ wpc = "cancelled"

----------------------------------------------------------------------------
(* Claims about the manager of the agent backend *)

\* C34: a run id is in the waiter table only while its _send_once is in
\* progress, so it is gone on every exit (payload, timeout, error); a chat
\* event for a run id that is not in the table changes no future; a future
\* is resolved at most once, and only by a final, error or aborted event.
C34_WaiterWhileInProgress ==
    /\ [](entry = "agent" =>
            \A k \in Chats :
                /\ k \in waiters => InProgress(k)
                /\ Len(settled[k]) <= 1
                /\ \A i \in 1 .. Len(settled[k]) : settled[k][i] \in {"final", "error", "aborted"}
                /\ futs[k] = "done" <=> settled[k] # <<>>)
    /\ [][\A k \in Chats : k \notin waiters => settled'[k] = settled[k]]_vars

\* one call returned the payload of an error event, the other timed out, and
\* both run ids are out of the table
C34_Witness ==
    /\ entry = "agent"
    /\ agent[1] = "returned"
    /\ settled[1] = <<"error">>
    /\ agent[2] = "empty"
    /\ waiters = {}

\* C35: the daemon handles its events one at a time: when the agent call of
\* an event starts, the agent call of every earlier event is over.
C35_AgentCallsInTurn ==
    entry = "agent" =>
        \A j, k \in Chats : (j < k /\ caller[k] # "none") => ~InProgress(j)

----------------------------------------------------------------------------
(* Claims about the replies of the daemon *)

\* the replies sent for the event the daemon read last
RepliesToEvent == {i \in 1 .. Len(replies) : replies[i].of = event.message_id}

\* C36: the daemon sends a reply only to the conversation the event came
\* from and only when there is reply text: a group event is answered by one
\* group send to its group_id, a private event by one private send to its
\* user_id; when send_chat raised or timed out, when its response holds no
\* text, or under fire-and-forget, nothing is sent for the event; in every
\* case the loop stays on its connection, and every reply is the reply to an
\* event read before it and after the event of the reply before.
C36_ReplyToOrigin ==
    /\ [](entry = "daemon" /\ fate \in {"forwarded", "answered"} =>
            /\ fate = "answered" <=>
                   (chat.how = "payload" /\ chat.text # <<>> /\ ~cfg.fire_and_forget)
            /\ fate = "forwarded" => RepliesToEvent = {}
            /\ fate = "answered" =>
                   /\ RepliesToEvent = {Len(replies)}
                   /\ event.message_type = "group" =>
                          /\ replies[Len(replies)].action = "send_group_msg"
                          /\ replies[Len(replies)].dest = event.group_id
                   /\ event.message_type = "private" =>
                          /\ replies[Len(replies)].action = "send_private_msg"
                          /\ replies[Len(replies)].dest = event.user_id
            /\ chat.session = IF event.message_type = "group"
                              THEN <<"qq-group-", event.group_id>>
                              ELSE <<"qq-user-", event.user_id>>)
    /\ [](entry = "daemon" =>
            \A i, j \in 1 .. Len(replies) : i < j => replies[i].of < replies[j].of)
    /\ [][(entry = "daemon" /\ fate' \in {"skipped", "forwarded"} /\ received' # received)
             => (replies' = replies /\ wpc' = "connected")]_vars
    /\ [][(entry = "daemon" /\ wpc # "cancelled" /\ replies' # replies)
             => (fate' = "answered" /\ wpc' = "connected" /\ received' # received)]_vars

\* a reply went to group 100 for the second event, a group event, after a
\* first event for which nothing was sent
C36_Witness ==
    /\ entry = "daemon"
    /\ fate = "answered"
    /\ event.message_type = "group"
    /\ replies = <<[action |-> "send_group_msg", dest |-> "100", of |-> 2]>>
    /\ received = <<1, 2>>

\* a private event was answered in private
C36_WitnessPrivate ==
    /\ entry = "daemon"
    /\ fate = "answered"
    /\ event.message_type = "private"
    /\ replies[Len(replies)].dest = "u2"

----------------------------------------------------------------------------
(* Claims about several subscriptions and about the order of the responses *)

\* the notifications that came through the task of subscription s
NotesVia(s) == {i \in Notes : stdout[i].via = s}

\* C31: with several subscriptions, every notification carries the id of the
\* subscription whose own connection received the event and whose own filter
\* took it; a task writes one notification for each event it takes; a line
\* once written is never changed or written again; and a step in which one
\* subscription drops an event, loses its connection or connects again
\* changes nothing of the others.
C31_OwnTagOwnFilter ==
    /\ [](entry = "rpc" =>
            /\ \A i \in Notes :
                  /\ stdout[i].sub = stdout[i].via
                  /\ tasks[stdout[i].via] # "none"
                  /\ stdout[i].via \notin stdout[i].down
                  /\ watchers[stdout[i].via].from_group \in {"absent", stdout[i].group}
            /\ \A s \in SubIds :
                  /\ Cardinality(NotesVia(s)) <= watchers[s].seen
                  /\ watchers[s].from_group = "absent"
                        => Cardinality(NotesVia(s)) = watchers[s].seen)
    /\ [][/\ Len(stdout') <= Len(stdout) + 1
          /\ \A i \in 1 .. Len(stdout) : stdout'[i] = stdout[i]]_vars
    /\ [][\A s \in SubIds :
             (tasks[s] = "running" /\ tasks'[s] = "running" /\ watchers'[s] # watchers[s]
              /\ stdout' = stdout)
                => /\ \A t \in SubIds \ {s} : watchers'[t] = watchers[t]
                   /\ UNCHANGED <<tasks, watch_tasks, rpc, requests>>]_vars

\* subscription 1, which takes group 100 only, has dropped an event and has
\* lost its connection; subscription 2 has written a notification while 1
\* was without connection
C31_Witness ==
    /\ entry = "rpc"
    /\ watchers[1].seen = 1
    /\ NotesVia(1) = {}
    /\ watchers[1].link = "backoff"
    /\ \E i \in NotesVia(2) : stdout[i].sub = 2 /\ stdout[i].down = {1} /\ stdout[i].group = "200"

\* the responses written so far
ResponseLines == {i \in 1 .. Len(stdout) : stdout[i].kind # "message"}

\* C37: serve handles one request at a time: the responses are written in
\* the order in which their requests were read, a line is read only when
\* serve is at readline and the request before, if it has an id, has its
\* response, and while a send is awaited its response is not yet written.
C37_OneRequestAtATime ==
    /\ [](entry = "rpc" =>
            /\ \A i, j \in ResponseLines : i < j => stdout[i].id < stdout[j].id
            /\ \A i \in ResponseLines : stdout[i].id \in 1 .. Len(requests)
            /\ rpc = "sending" => \A i \in ResponseLines : stdout[i].id < Len(requests))
    /\ [][Len(requests') > Len(requests) =>
             /\ rpc = "reading"
             /\ (requests # <<>> /\ Current.id # NoId)
                    => \E i \in ResponseLines : stdout[i].id = Current.id]_vars

\* a notification was written while a send was awaited, the send was answered
\* after it, and the next line was read after that
C37_Witness ==
    /\ entry = "rpc"
    /\ Len(requests) = 3
    /\ requests[2].method = "send"
    /\ \E i, j \in 1 .. Len(stdout) :
          /\ i < j
          /\ stdout[i].kind = "message"
          /\ stdout[i].at = "sending"
          /\ stdout[j].kind = "result"
          /\ stdout[j].id = 2

====
